---- MODULE Spec2Model ----
(***************************************************************************)
(* ChopTube: the preload / readiness / transport core.                     *)
(*                                                                         *)
(*   Transport Coordinator   src/src/lib/clock/clock.ts (TransportManager) *)
(*   Deck trigger path       src/src/app/page.tsx                          *)
(*   Autoplay Policy Guard   src/unnamed/part_014 (PolicyGuard)            *)
(*   Preload pipeline        src/src/lib/youtube/preload.ts                *)
(*   Player helpers          src/unnamed/part_015                          *)
(*                                                                         *)
(* The JavaScript event loop is modelled by its tasks: every action below  *)
(* is one task (a call made by the application, a timer callback, a DOM    *)
(* event dispatch) run to completion together with the microtasks it       *)
(* queues.                                                                 *)
(***************************************************************************)
EXTENDS Integers, Sequences, FiniteSets, Bags, TLC

\* ------------------------------------------------------------------ bounds
\* Number of schedulePlay calls explored.
MaxScheds == 2
\* Number of clock steps explored.
MaxTicks == 3
\* Milliseconds the wall clock advances in one step.
TickMs == 500
\* Largest targetTime (seconds) passed to schedulePlay.
MaxTargetSec == 1

\* Number of pads of a deck that are modelled (the page has 16).
NumPads == 2
\* Largest pad timestamp (seconds) that is set or triggered.
MaxPadSec == 1
\* Number of pad timestamp edits explored.
MaxEdits == 2

\* Number of user interaction events explored.
MaxEvents == 2
\* Number of retry handlers the Policy Guard creates in a run.
MaxHandlers == 2
\* Number of calls the application makes into the preload path.
MaxAppCalls == 2
\* Number of user interaction events explored where retries are counted.
MaxInteractions == 3
\* Largest cap passed to autoPreloadMultiple besides the default.
MaxCap == 2

\* Largest number of tracks in the project store.
MaxTracks == 2

\* Number of playlist videos offered to the playlist preload manager.
MaxVideos == 4

\* ------------------------------------------------------- program constants
MsPerSec == 1000
\* PolicyGuard.maxRetries
maxRetries == 3
\* PRELOAD_CONFIG.PREROLL_DURATION_MS
PREROLL_DURATION_MS == 350
\* PRELOAD_CONFIG.MAX_HIDDEN_PRELOADED_PLAYERS
MAX_HIDDEN_PRELOADED_PLAYERS == 4
\* PRELOAD_CONFIG.READY_THRESHOLD_FRACTION, in percent
READY_THRESHOLD_FRACTION == 5
\* the poll interval of waitForBuffering, ms
BufferingPollMs == 50
\* the settle delay of verifyPlayerReady, ms
VerifySettleMs == 200
\* the no-progress limit of waitForBuffering
NoProgressLimit == 10
\* YOUTUBE_CONFIG.DEFAULT_RATE, in hundredths
DEFAULT_RATE == 100
\* YOUTUBE_CONFIG.ALLOWED_RATES, in hundredths
ALLOWED_RATES == {25, 50, 75, 100, 125, 150, 175, 200}

Tracks == {"video1", "video2"}

\* A player handle: absent, an object that lacks the required methods, or a
\* full YouTube player.
HandleKinds == {"none", "broken", "ok"}

TargetTimes == 0 .. MaxTargetSec
Lookaheads == {0, TickMs}

Max(a, b) == IF a >= b THEN a ELSE b
Min(a, b) == IF a <= b THEN a ELSE b

\* lastOp after any call other than stopTransport.
OtherOp == [op |-> "other", tracks |-> {}, repeat |-> FALSE]

VARIABLES
    now,             \* Date.now(), in ms
    handle,          \* track -> kind of its playerRef
    playerState,     \* track -> state of the remote player
    playerPos,       \* track -> position of the remote player, in ms
    timers,          \* the pending setTimeout callbacks
    scheduledPlays,  \* TransportManager.scheduledPlays: track -> timer id, 0 = no entry
    nScheds,         \* number of schedulePlay calls that passed the guard
    execLog,         \* schedule -> its callbacks executed so far, in order
    onPlayRan,       \* schedules whose onPlay callback ran
    superseded,      \* schedules replaced while their play was pending
    cancelled,       \* schedules cancelled while their play was pending
    lastOp,          \* the last call made on the TransportManager
    touched,         \* the tracks on whose handle the last TransportManager call or
                     \* timer callback invoked a method
    startReport,     \* the last startTransport call: its tracks, the warning, the
                     \* tracks it primed
    deckReady,       \* deck -> player1/player2 is set and isPlayerReady1/2 is true
    pads,            \* deck -> pad id -> [timestamp, isPlaying] (pads1, pads2)
    currentlyPlayingRef,  \* deck -> id of the pad last marked playing, -1 = null
    nEdits,          \* number of pad timestamp edits made
    lastPadOp,       \* the last pad handler that ran
    playerLoading,   \* deck -> a player is being created and has not signalled ready
    pausedEvents,    \* deck -> a PAUSED state-change event of the deck's player, posted
                     \* for a pause made by a pad handler, is yet to be delivered
    playOutcome,     \* track -> what playVideo() does during a preload
    pendingTracks,   \* PolicyGuard.pendingTracks, in insertion order
    retryListener,   \* PolicyGuard.retryListener: handler id, 0 = null
    domListeners,    \* the listeners attached to document
    nHandlers,       \* number of handleUserInteraction closures created
    waiting,         \* autoPreloadPlayer calls suspended in their preroll wait
    attempts,        \* track -> number of retries made by retry passes
    dropped,         \* tracks given up after maxRetries
    nEvents,         \* number of user interaction events dispatched
    nKinds,          \* number of event types that have occurred
    nAppCalls,       \* number of calls made by the application
    ytPlayer,        \* track -> the remote player's audio (muted flag, volume) and
                     \* the methods invoked on it by its latest preload attempt
    multi,           \* the autoPreloadMultiple call: arguments, position, result lists
    armHandle,       \* armAll track -> kind of player object in the map
    armPlay,         \* armAll track -> what playVideo() does
    armPlayer,       \* armAll track -> the player: state, loaded %, muted, volume
    armInput,        \* the track ids of the map passed to armAll
    armStatus,       \* armAll's promise: "idle", "running", "resolved", "rejected"
    armProc,         \* armAll track -> where its preloadPlayer call stands
    armCallback,     \* armAll track -> state of the callback's promise
    results,         \* armAll's PreloadSummary
    armNow,          \* ms since armAll was called
    armLog,          \* the player methods armAll's preloads invoked, in order
    storeTracks,     \* useProjectStore: the tracks array
    lastStoreOp,     \* the last call made on the store
    preloadAll,      \* PreloadControl.handlePreloadAll: isPreloading, the tracks
                     \* it passed to armAll, those whose player was replaced since
    remoteRate,      \* track -> the playback rate of the remote player, hundredths
    pitchTimers,     \* the pending 100 ms timers of PitchControl's onError
    notified,        \* tracks for which 'Rate not supported' was shown
    lastApply,       \* the last applyRateToPlayer call: track, rate, what the
                     \* player did, what the call returned
    hiddenPlayers,   \* PlaylistPreloadManager: the hiddenPlayers map, its
                     \* entries in insertion order
    maxPreloads,     \* PlaylistPreloadManager: the configured maximum
    playlistCall     \* the preloadCandidates call in progress

transportVars == <<now, handle, playerState, playerPos, timers, scheduledPlays,
                   nScheds, execLog, onPlayRan, superseded, cancelled, lastOp, touched>>

startVars == <<startReport>>

pitchVars == <<remoteRate, pitchTimers, notified, lastApply>>

playlistVars == <<hiddenPlayers, maxPreloads, playlistCall>>

padVars == <<deckReady, pads, currentlyPlayingRef, nEdits, lastPadOp, playerLoading,
            pausedEvents>>

guardVars == <<playOutcome, pendingTracks, retryListener, domListeners, nHandlers,
               waiting, attempts, dropped, nEvents, nKinds, nAppCalls,
               ytPlayer, multi>>

armVars == <<armHandle, armPlay, armPlayer, armInput, armStatus, armProc, armCallback,
             results, armNow, armLog>>

storeVars == <<storeTracks, lastStoreOp, preloadAll>>

vars == <<transportVars, startVars, padVars, guardVars, armVars, storeVars, pitchVars,
    playlistVars>>

\* What the TransportManager and its timers leave alone.
outsideTransport == <<startVars, padVars, guardVars, armVars, storeVars, pitchVars,
    playlistVars>>

\* What the page's pad handlers leave alone.
outsidePads == <<now, handle, timers, scheduledPlays, nScheds, execLog, onPlayRan,
                 superseded, cancelled, lastOp, touched, startVars, guardVars, armVars,
                 storeVars, pitchVars, playlistVars>>

\* What the Policy Guard and autoPreloadPlayer leave alone.
outsideMulti == <<now, handle, playerPos, timers, scheduledPlays, nScheds, execLog,
                  onPlayRan, superseded, cancelled, lastOp, touched, startVars, padVars,
                  armVars, storeVars, pitchVars, playlistVars>>

outsideGuard == <<outsideMulti, multi>>

\* What PreloadManager leaves alone.
outsideArm == <<transportVars, startVars, padVars, guardVars, storeVars, pitchVars,
    playlistVars>>

\* What the project store leaves alone.
outsideStore == <<transportVars, startVars, padVars, guardVars, armVars, preloadAll,
                  pitchVars, playlistVars>>

\* What the page and PreloadControl leave alone when they use the store.
outsideReady == <<transportVars, startVars, padVars, guardVars, armVars, pitchVars,
    playlistVars>>

\* What the playlist preload manager leaves alone.
outsidePlaylist == <<transportVars, startVars, padVars, guardVars, armVars, storeVars,
                     pitchVars>>

\* --------------------------------------------------------- player helpers

isPlayerReady(h) == h = "ok"

\* pauseVideo(player): a no-op on a handle without the method; the remote
\* player ends paused unless it was not started or had ended.
PauseResult(h, st) ==
    IF h # "ok" THEN st
    ELSE IF st \in {"playing", "buffering", "paused"} THEN "paused" ELSE st

PlayResult(h, st) == IF h # "ok" THEN st ELSE "playing"

SeekResult(h, pos, ms) == IF h # "ok" THEN pos ELSE ms

\* ------------------------------------------------------------- the timers
\* A pending setTimeout is a record of `timers`; the id that setTimeout
\* returned for a schedule's play timer is the schedule's number.

PlayTimerOf(s) == {tm \in timers : tm.sched = s /\ tm.kind = "play"}

\* clearTimeout(id) for the play timers of the schedules `ss`: a timer that
\* has run or was cleared before is not pending, and nothing happens.
ClearTimers(ss) == {tm \in timers : ~(tm.kind = "play" /\ tm.sched \in ss)}

\* tm1 was set before tm2: schedulePlay sets the seek timer before the play
\* timer.
SetBefore(tm1, tm2) ==
    \/ tm1.sched < tm2.sched
    \/ (tm1.sched = tm2.sched /\ tm1.kind = "seek" /\ tm2.kind = "play")

\* Timers run in the order of their deadlines, and in the order they were
\* set when the deadlines are equal.
RunsBefore(tm1, tm2) ==
    \/ tm1.due < tm2.due
    \/ (tm1.due = tm2.due /\ SetBefore(tm1, tm2))

NextDue(tm) ==
    /\ tm \in timers
    /\ tm.due <= now
    /\ \A other \in timers \ {tm} : RunsBefore(tm, other)

\* The schedules whose deferred play is held by the entries `ts` of
\* scheduledPlays and has not run yet.
PendingScheds(ts) ==
    {s \in {scheduledPlays[t] : t \in ts} \ {0} : PlayTimerOf(s) # {}}

\* ------------------------------------------------- TransportManager.schedulePlay

\* A sign slip in the seek deadline: target + lookahead.
SeekDelayAfterTarget(targetTimestamp, lookaheadMs, t0) ==
    Max(0, (targetTimestamp + lookaheadMs) - t0)

SeekDelay(targetTimestamp, lookaheadMs, t0) ==
    Max(0, (targetTimestamp - lookaheadMs) - t0)

PlayDelay(targetTimestamp, t0) == Max(0, targetTimestamp - t0)

\* The schedules whose play timer the call clears before it schedules: the
\* track's entry only.
ClearedBySchedule(t) == {scheduledPlays[t]} \ {0}

SchedulePlay(t, targetTime, lookaheadMs) ==
    /\ nScheds < MaxScheds
    /\ isPlayerReady(handle[t])
    /\ LET s == nScheds + 1
           targetTimestamp == targetTime * MsPerSec
           seekDelay == SeekDelay(targetTimestamp, lookaheadMs, now)
           playDelay == PlayDelay(targetTimestamp, now)
           cleared == ClearTimers(ClearedBySchedule(t))
           seekT == [sched |-> s, kind |-> "seek", track |-> t, due |-> now + seekDelay,
                     arg |-> Max(0, targetTimestamp - lookaheadMs)]
           playT == [sched |-> s, kind |-> "play", track |-> t, due |-> now + playDelay,
                     arg |-> targetTimestamp]
           withSeek == IF seekDelay > 0 THEN cleared \cup {seekT} ELSE cleared
       IN  /\ nScheds' = s
           /\ superseded' = superseded \cup PendingScheds({t})
           /\ IF playDelay > 0
              THEN /\ timers' = withSeek \cup {playT}
                   /\ scheduledPlays' = [scheduledPlays EXCEPT ![t] = s]
                   /\ touched' = {}
                   /\ UNCHANGED <<playerState, execLog, onPlayRan>>
              ELSE /\ timers' = withSeek
                   /\ touched' = {t}
                   /\ playerState' = [playerState EXCEPT ![t] = PlayResult(handle[t], @)]
                   /\ execLog' = [execLog EXCEPT ![s] = Append(@, "play")]
                   /\ onPlayRan' = onPlayRan \cup {s}
                   /\ UNCHANGED scheduledPlays
           /\ lastOp' = OtherOp
    /\ UNCHANGED <<now, handle, playerPos, cancelled>>
    /\ UNCHANGED outsideTransport

\* The guard fails: the call returns at once.
SchedulePlayNotReady(t) ==
    /\ ~isPlayerReady(handle[t])
    /\ lastOp' = OtherOp
    /\ touched' = {}
    /\ UNCHANGED <<now, handle, playerState, playerPos, timers, scheduledPlays,
                   nScheds, execLog, onPlayRan, superseded, cancelled>>
    /\ UNCHANGED outsideTransport

\* ------------------------------------------------------- timer callbacks

FireSeek(tm) ==
    /\ NextDue(tm)
    /\ tm.kind = "seek"
    /\ timers' = timers \ {tm}
    /\ playerPos' = [playerPos EXCEPT ![tm.track] = SeekResult(handle[tm.track], @, tm.arg)]
    /\ execLog' = [execLog EXCEPT ![tm.sched] = Append(@, "seek")]
    /\ touched' = {tm.track}
    /\ UNCHANGED <<now, handle, playerState, scheduledPlays, nScheds, onPlayRan,
                   superseded, cancelled, lastOp>>
    /\ UNCHANGED outsideTransport

FirePlay(tm) ==
    /\ NextDue(tm)
    /\ tm.kind = "play"
    /\ timers' = timers \ {tm}
    /\ playerState' = [playerState EXCEPT ![tm.track] = PlayResult(handle[tm.track], @)]
    /\ execLog' = [execLog EXCEPT ![tm.sched] = Append(@, "play")]
    /\ onPlayRan' = onPlayRan \cup {tm.sched}
    /\ scheduledPlays' = [scheduledPlays EXCEPT ![tm.track] = 0]
    /\ touched' = {tm.track}
    /\ UNCHANGED <<now, handle, playerPos, nScheds, superseded, cancelled, lastOp>>
    /\ UNCHANGED outsideTransport

\* --------------------------------------------------------- cancellation

CancelScheduledPlay(t) ==
    /\ IF scheduledPlays[t] # 0
       THEN /\ timers' = ClearTimers({scheduledPlays[t]})
            /\ scheduledPlays' = [scheduledPlays EXCEPT ![t] = 0]
            /\ cancelled' = cancelled \cup PendingScheds({t})
       ELSE UNCHANGED <<timers, scheduledPlays, cancelled>>
    /\ lastOp' = OtherOp
    /\ touched' = {}
    /\ UNCHANGED <<now, handle, playerState, playerPos, nScheds, execLog, onPlayRan,
                   superseded>>
    /\ UNCHANGED outsideTransport

CancelAllScheduledPlays ==
    /\ timers' = ClearTimers({scheduledPlays[t] : t \in Tracks})
    /\ scheduledPlays' = [t \in Tracks |-> 0]
    /\ cancelled' = cancelled \cup PendingScheds(Tracks)
    /\ lastOp' = OtherOp
    /\ touched' = {}
    /\ UNCHANGED <<now, handle, playerState, playerPos, nScheds, execLog, onPlayRan,
                   superseded>>
    /\ UNCHANGED outsideTransport

\* ------------------------------------------- TransportManager.stopTransport

\* Pausing only the tracks that had a scheduled play.
PausedByStopScheduledOnly(ts) ==
    {t \in ts : isPlayerReady(handle[t]) /\ scheduledPlays[t] # 0}

\* The tracks of the argument whose player the call pauses.
PausedByStop(ts) == {t \in ts : handle[t] # "none" /\ isPlayerReady(handle[t])}

StopTransport(ts) ==
    /\ timers' = ClearTimers({scheduledPlays[t] : t \in Tracks})
    /\ scheduledPlays' = [t \in Tracks |-> 0]
    /\ cancelled' = cancelled \cup PendingScheds(Tracks)
    /\ playerState' = [t \in Tracks |->
                          IF t \in PausedByStop(ts)
                          THEN PauseResult(handle[t], playerState[t])
                          ELSE playerState[t]]
    /\ lastOp' = [op |-> "stopTransport", tracks |-> ts,
                  repeat |-> (lastOp.op = "stopTransport" /\ lastOp.tracks = ts)]
    /\ touched' = PausedByStop(ts)
    /\ UNCHANGED <<now, handle, playerPos, nScheds, execLog, onPlayRan, superseded>>
    /\ UNCHANGED outsideTransport

\* ------------------------------------------ TransportManager.startTransport

\* What the remote player does with a setPlaybackRate call: it takes the
\* rate, it keeps the rate it had, or the call throws.
RateOutcomes == {"applied", "ignored", "throws"}

\* Math.max(0.25, Math.min(2.0, rate)), in hundredths
ClampRate(rate) == Max(25, IF rate <= 200 THEN rate ELSE 200)

\* The remote player's rate after applyPlaybackRate(player, rate) on a
\* player that has the method.
RateAfterApply(current, rate, outcome) ==
    IF outcome = "applied" THEN ClampRate(rate) ELSE current

NoStart == [called |-> FALSE, tracks |-> {}, notReady |-> {}, warned |-> FALSE,
            primed |-> {}]

\* tracks.filter(track => track.ready && track.playerRef)
ReadyTracks(ts, ready) == {t \in ts : ready[t] /\ handle[t] # "none"}

\* tracks.filter(track => !track.ready)
NotReadyTracks(ts, ready) == {t \in ts : ~ready[t]}

\* Priming every track that is flagged ready and has a playerRef.
PrimedWithoutGuard(ts, ready) == ReadyTracks(ts, ready)

\* The tracks the loop of startTransport primes.
PrimedByStart(ts, ready) == {t \in ReadyTracks(ts, ready) : isPlayerReady(handle[t])}

\* startTransport(tracks, lookaheadMs, onWarning): the tracks ts with their
\* ready flags and rates.
StartTransport(ts, ready, rate, lookaheadMs, outcome) ==
    /\ LET primed == PrimedByStart(ts, ready)
           notReady == NotReadyTracks(ts, ready)
       IN  /\ remoteRate' = [t \in Tracks |->
                                IF t \in primed
                                THEN RateAfterApply(remoteRate[t], rate[t], outcome)
                                ELSE remoteRate[t]]
           /\ playerPos' = [t \in Tracks |->
                               IF t \in primed
                               THEN SeekResult(handle[t], playerPos[t], Max(0, 0 - lookaheadMs))
                               ELSE playerPos[t]]
           /\ playerState' = [t \in Tracks |->
                                 IF t \in primed
                                 THEN PauseResult(handle[t], playerState[t])
                                 ELSE playerState[t]]
           /\ touched' = primed
           /\ startReport' = [called |-> TRUE, tracks |-> ts, notReady |-> notReady,
                              warned |-> (notReady # {}), primed |-> primed]
    /\ lastOp' = OtherOp
    /\ UNCHANGED <<now, handle, timers, scheduledPlays, nScheds, execLog, onPlayRan,
                   superseded, cancelled>>
    /\ UNCHANGED <<padVars, guardVars, armVars, storeVars, pitchTimers, notified, lastApply,
                 playlistVars>>

\* ------------------------------------------------------ the page's decks

Decks == Tracks

OtherDeck(d) == CHOOSE o \in Decks : o # d

PadIds == 0 .. (NumPads - 1)

\* Pad timestamps and player positions are kept in ms.
PadTimes == {k * MsPerSec : k \in 0 .. MaxPadSec}

UnsetTimestamp == 0 - 1

NoPadOp == [op |-> "none", deck |-> "video1", timestamp |-> 0]

\* prev.map(pad => ({ ...pad, isPlaying: false }))
AllNotPlaying(ps) == [i \in PadIds |-> [ps[i] EXCEPT !.isPlaying = FALSE]]

\* pads.find(pad => pad.timestamp === timestamp)?.id, -1 when there is none
FindPad(ps, timestamp) ==
    IF \E i \in PadIds : ps[i].timestamp = timestamp
    THEN CHOOSE i \in PadIds :
            /\ ps[i].timestamp = timestamp
            /\ \A j \in PadIds : ps[j].timestamp = timestamp => i <= j
    ELSE 0 - 1

\* The pads of the deck being triggered, after the trigger.
TargetPadsAfterTrigger(ps, timestamp) ==
    IF FindPad(ps, timestamp) # 0 - 1
    THEN [i \in PadIds |-> [ps[i] EXCEPT !.isPlaying = (i = FindPad(ps, timestamp))]]
    ELSE ps

\* A trigger that leaves the other deck's markers alone.
OtherPadsKept(ps, otherReady) == ps

\* The pads of the other deck after the trigger: reset when that deck's
\* player is set and ready.
OtherPadsAfterTrigger(ps, otherReady) == IF otherReady THEN AllNotPlaying(ps) ELSE ps

\* pauseVideo on a player in state st makes it post a PAUSED event: the
\* player leaves the state it was in.
PostsPaused(h, st) == PauseResult(h, st) # st

\* handlePadTrigger1 / handlePadTrigger2
PadTrigger(d, timestamp) ==
    LET o == OtherDeck(d) IN
    /\ IF deckReady[d]
       THEN /\ pads' = [pads EXCEPT
                          ![o] = OtherPadsAfterTrigger(pads[o], deckReady[o]),
                          ![d] = TargetPadsAfterTrigger(pads[d], timestamp)]
            /\ currentlyPlayingRef' =
                  [x \in Decks |->
                      IF x = d
                      THEN (IF FindPad(pads[d], timestamp) # 0 - 1
                            THEN FindPad(pads[d], timestamp) ELSE currentlyPlayingRef[d])
                      ELSE (IF deckReady[o] THEN 0 - 1 ELSE currentlyPlayingRef[o])]
            /\ playerState' =
                  [x \in Decks |->
                      IF x = d THEN PlayResult("ok", playerState[d])
                      ELSE IF deckReady[o] THEN PauseResult("ok", playerState[o])
                      ELSE playerState[o]]
            /\ playerPos' = [playerPos EXCEPT ![d] = SeekResult("ok", @, timestamp)]
            /\ pausedEvents' =
                  [pausedEvents EXCEPT
                      ![o] = @ \/ (deckReady[o] /\ PostsPaused("ok", playerState[o]))]
       ELSE UNCHANGED <<pads, currentlyPlayingRef, playerState, playerPos, pausedEvents>>
    /\ lastPadOp' = [op |-> "trigger", deck |-> d, timestamp |-> timestamp]
    /\ UNCHANGED <<deckReady, nEdits, playerLoading>>
    /\ UNCHANGED outsidePads

\* handlePadStop1 / handlePadStop2
PadStop(d) ==
    /\ IF deckReady[d]
       THEN /\ playerState' = [playerState EXCEPT ![d] = PauseResult("ok", @)]
            /\ pads' = [pads EXCEPT ![d] = AllNotPlaying(@)]
            /\ currentlyPlayingRef' = [currentlyPlayingRef EXCEPT ![d] = 0 - 1]
            /\ pausedEvents' =
                  [pausedEvents EXCEPT ![d] = @ \/ PostsPaused("ok", playerState[d])]
       ELSE UNCHANGED <<playerState, pads, currentlyPlayingRef, pausedEvents>>
    /\ lastPadOp' = [op |-> "stop", deck |-> d, timestamp |-> 0]
    /\ UNCHANGED <<deckReady, nEdits, playerPos, playerLoading>>
    /\ UNCHANGED outsidePads

\* handleUpdatePad1 / handleUpdatePad2
UpdatePad(d, id, timestamp) ==
    /\ nEdits < MaxEdits
    /\ nEdits' = nEdits + 1
    /\ pads' = [pads EXCEPT ![d][id].timestamp = timestamp]
    /\ lastPadOp' = [op |-> "update", deck |-> d, timestamp |-> timestamp]
    /\ UNCHANGED <<deckReady, currentlyPlayingRef, playerState, playerPos, playerLoading,
                   pausedEvents>>
    /\ UNCHANGED outsidePads

\* handlePlayerReady1 / handlePlayerReady2: the deck's player is set and
\* flagged ready.
PlayerReady(d) ==
    /\ ~deckReady[d]
    /\ playerLoading[d]
    /\ deckReady' = [deckReady EXCEPT ![d] = TRUE]
    /\ playerLoading' = [playerLoading EXCEPT ![d] = FALSE]
    /\ lastPadOp' = [op |-> "ready", deck |-> d, timestamp |-> 0]
    /\ UNCHANGED <<pads, currentlyPlayingRef, nEdits, playerState, playerPos, pausedEvents>>
    /\ UNCHANGED outsidePads

\* handleUrlSubmit1 / handleUrlSubmit2 with a valid URL: player and ready flag
\* are reset.  With a new video id the YouTubePlayer effect destroys the
\* player and creates another, and the deck's markers are reset; with the id
\* the deck already shows no effect runs and the player lives on.
UrlSubmit(d, sameVideo) ==
    /\ deckReady' = [deckReady EXCEPT ![d] = FALSE]
    /\ IF sameVideo
       THEN UNCHANGED <<pads, currentlyPlayingRef, playerState, playerPos, playerLoading,
                        pausedEvents>>
       ELSE /\ pads' = [pads EXCEPT ![d] = AllNotPlaying(@)]
            /\ currentlyPlayingRef' = [currentlyPlayingRef EXCEPT ![d] = 0 - 1]
            /\ playerState' = [playerState EXCEPT ![d] = "unstarted"]
            /\ playerPos' = [playerPos EXCEPT ![d] = 0]
            /\ playerLoading' = [playerLoading EXCEPT ![d] = TRUE]
            /\ pausedEvents' = [pausedEvents EXCEPT ![d] = FALSE]
    /\ lastPadOp' = [op |-> "submit", deck |-> d, timestamp |-> 0]
    /\ UNCHANGED nEdits
    /\ UNCHANGED outsidePads

\* handlePlayerStateChange1 / handlePlayerStateChange2 for a PAUSED event:
\* every marker of the deck is cleared.  (The events of other states change
\* no pad state.)
PlayerStateChange(d) ==
    /\ pausedEvents[d]
    /\ pausedEvents' = [pausedEvents EXCEPT ![d] = FALSE]
    /\ pads' = [pads EXCEPT ![d] = AllNotPlaying(@)]
    /\ currentlyPlayingRef' = [currentlyPlayingRef EXCEPT ![d] = 0 - 1]
    /\ lastPadOp' = [op |-> "stateChange", deck |-> d, timestamp |-> 0]
    /\ UNCHANGED <<deckReady, nEdits, playerState, playerPos, playerLoading>>
    /\ UNCHANGED outsidePads

\* handleSetTimestampFromCurrentTime1 / 2: getCurrentTime(player) is written
\* to the pad when the deck's player is set and ready.
SetTimestampFromCurrentTime(d, padId) ==
    IF deckReady[d]
    THEN UpdatePad(d, padId, playerPos[d])
    ELSE /\ lastPadOp' = [op |-> "setFromCurrentTime", deck |-> d, timestamp |-> 0]
         /\ UNCHANGED <<deckReady, pads, currentlyPlayingRef, nEdits, playerState,
                        playerPos, playerLoading, pausedEvents>>
         /\ UNCHANGED outsidePads

\* DrumMachine.handlePadClick (click and touch) and the page's keydown
\* handler for the pad's key.
PadActivate(d, padId) ==
    IF pads[d][padId].timestamp >= 0
    THEN PadTrigger(d, pads[d][padId].timestamp)
    ELSE SetTimestampFromCurrentTime(d, padId)

\* --------------------------------------------------- Autoplay Policy Guard
\* The guard's operations call each other and run inside promise
\* continuations, so they are written as functions on a record `w` of the
\* state they touch; an action commits the record it ends with.

\* The interaction events the retry handler is attached to, in the order of
\* the source's array.
EventOrder == <<"click", "keydown", "touchstart", "mousedown">>

EventTypes == {EventOrder[k] : k \in DOMAIN EventOrder}

PlayOutcomes == {"ok", "policy", "other"}

World ==
    [pend |-> pendingTracks, listener |-> retryListener, dom |-> domListeners,
     nH |-> nHandlers, waiting |-> waiting, attempts |-> attempts,
     dropped |-> dropped, pstate |-> playerState, yt |-> ytPlayer]

Commit(w) ==
    /\ pendingTracks' = w.pend
    /\ retryListener' = w.listener
    /\ domListeners' = w.dom
    /\ nHandlers' = w.nH
    /\ waiting' = w.waiting
    /\ attempts' = w.attempts
    /\ dropped' = w.dropped
    /\ playerState' = w.pstate
    /\ ytPlayer' = w.yt

RemoveAt(seq, i) == [k \in 1 .. (Len(seq) - 1) |-> IF k < i THEN seq[k] ELSE seq[k + 1]]

\* pendingTracks.get(trackId): its index, 0 when absent
PendingIndex(pend, t) ==
    IF \E i \in DOMAIN pend : pend[i].trackId = t
    THEN CHOOSE i \in DOMAIN pend : pend[i].trackId = t
    ELSE 0

IsPending(pend, t) == PendingIndex(pend, t) # 0

\* PolicyGuard.setupRetryListener
SetupRetryListener(w) ==
    IF w.listener # 0 THEN w
    ELSE [w EXCEPT !.listener = w.nH + 1,
                   !.nH = w.nH + 1,
                   !.dom = @ \cup {[event |-> e, handler |-> w.nH + 1] : e \in EventTypes}]

\* PolicyGuard.removeRetryListener: the field is reset; the listeners stay
\* attached until their event fires ({ once: true }).
RemoveRetryListener(w) == [w EXCEPT !.listener = 0]

\* PolicyGuard.registerPendingTrack
RegisterPendingTrack(w, t) ==
    LET i == PendingIndex(w.pend, t)
        retryCount == IF i # 0 THEN w.pend[i].retryCount + 1 ELSE 0
    IN  IF retryCount >= maxRetries
        THEN [w EXCEPT !.pend = RemoveAt(@, i), !.dropped = @ \cup {t}]
        ELSE SetupRetryListener(
                [w EXCEPT !.pend = IF i # 0
                                   THEN [@ EXCEPT ![i].retryCount = retryCount]
                                   ELSE Append(@, [trackId |-> t, retryCount |-> 0])])

\* pendingTracks.delete(trackId)
DeletePending(w, t) ==
    IF IsPending(w.pend, t)
    THEN [w EXCEPT !.pend = RemoveAt(@, PendingIndex(w.pend, t))]
    ELSE w

\* A method is invoked on player p: the log keeps its name with the audio
\* the player had when it was invoked.
Invoke(p, cmd) == [p EXCEPT !.log = Append(@, [cmd |-> cmd, audio |-> p.audio])]

\* ytPlayer.setVolume(v)
SetVolume(p, v) == [Invoke(p, "setVolume") EXCEPT !.audio.volume = v]

\* if (!ytPlayer.isMuted()) ytPlayer.mute()
MuteUnlessMuted(p) ==
    IF p.audio.muted THEN p ELSE [Invoke(p, "mute") EXCEPT !.audio.muted = TRUE]

\* ytPlayer.unMute()
UnMute(p) == [Invoke(p, "unMute") EXCEPT !.audio.muted = FALSE]

\* autoPreloadPlayer steps 1 to 4 up to the call of playVideo, as the first
\* methods of a new attempt.
MuteRateSeekPlay(p) ==
    Invoke(Invoke(Invoke(MuteUnlessMuted(SetVolume([p EXCEPT !.log = <<>>], 0)),
                         "setPlaybackRate"), "seekTo"), "playVideo")

\* autoPreloadPlayer steps 6 to 8: pause, unmute, full volume, loaded fraction.
PauseUnmuteVerify(p) ==
    Invoke(SetVolume(UnMute(Invoke(p, "pauseVideo")), 100), "getVideoLoadedFraction")

\* autoPreloadPlayer up to its first suspension: the guard, mute, seek and
\* play.  result "false": the promise is already resolved with false;
\* "waiting": play was accepted and the call waits for the preroll.
AutoPreloadSync(w, t) ==
    IF ~isPlayerReady(handle[t]) THEN [w |-> w, result |-> "false"]
    ELSE CASE playOutcome[t] = "policy" ->
                [w |-> RegisterPendingTrack([w EXCEPT !.yt[t] = MuteRateSeekPlay(@)], t),
                 result |-> "false"]
           [] playOutcome[t] = "other" ->
                [w |-> [w EXCEPT !.yt[t] = MuteRateSeekPlay(@)], result |-> "false"]
           [] OTHER ->
                [w |-> [w EXCEPT !.yt[t] = MuteRateSeekPlay(@),
                                 !.pstate[t] = PlayResult(handle[t], @)],
                 result |-> "waiting"]

\* A call reaches `await`: it joins the suspended calls (a bag: two passes
\* can wait for the same track with the same rest of snapshot).
Suspend(w, call) == [w EXCEPT !.waiting = @ (+) SetToBag({call})]

\* PolicyGuard.retryPendingTracks, from the track at the head of `queue` on,
\* until a call suspends or the snapshot is exhausted.
RECURSIVE RunPass(_, _)
RunPass(w, queue) ==
    IF queue = <<>> THEN w
    ELSE LET t == Head(queue)
             r == AutoPreloadSync([w EXCEPT !.attempts[t] = @ + 1], t)
         IN  IF r.result = "waiting"
             THEN Suspend(r.w, [track |-> t, isPass |-> TRUE, rest |-> Tail(queue)])
             ELSE RunPass(r.w, Tail(queue))

\* handleUserInteraction: retryPendingTracks() runs up to its first await,
\* then removeRetryListener(), then the rest of the pass as microtasks.
HandleUserInteraction(w) ==
    LET snapshot == [i \in DOMAIN w.pend |-> w.pend[i].trackId]
    IN  IF snapshot = <<>> THEN RemoveRetryListener(w)
        ELSE LET t == Head(snapshot)
                 r == AutoPreloadSync([w EXCEPT !.attempts[t] = @ + 1], t)
                 w2 == RemoveRetryListener(r.w)
             IN  IF r.result = "waiting"
                 THEN Suspend(w2, [track |-> t, isPass |-> TRUE, rest |-> Tail(snapshot)])
                 ELSE RunPass(w2, Tail(snapshot))

\* The handlers listening for event e, oldest first.
RECURSIVE HandlersInOrder(_)
HandlersInOrder(hs) ==
    IF hs = {} THEN <<>>
    ELSE LET h == CHOOSE x \in hs : \A y \in hs : x <= y
         IN  <<h>> \o HandlersInOrder(hs \ {h})

\* document dispatches an event: each listener is detached ({ once: true })
\* and called; its microtasks run before the next listener is called.
RECURSIVE DispatchTo(_, _)
DispatchTo(w, hs) ==
    IF hs = <<>> THEN w
    ELSE DispatchTo(HandleUserInteraction(w), Tail(hs))

Listening(dom, e) == {l.handler : l \in {x \in dom : x.event = e}}

\* The user interacts with the page.  The four event types are handled
\* alike, so runs are explored up to a renaming of the types: a type that
\* has not occurred before is always the next one of EventOrder.
Interaction(k, maxEvents) ==
    /\ nEvents < maxEvents
    /\ k <= nKinds + 1
    /\ nEvents' = nEvents + 1
    /\ nKinds' = Max(nKinds, k)
    /\ LET e == EventOrder[k]
           hs == Listening(domListeners, e)
           w0 == [World EXCEPT !.dom = {l \in @ : l.event # e}]
           w1 == DispatchTo(w0, HandlersInOrder(hs))
       IN  /\ w1.nH <= MaxHandlers
           /\ Commit(w1)
    /\ UNCHANGED <<playOutcome, nAppCalls>>
    /\ UNCHANGED outsideGuard

UserEvent(k) == Interaction(k, MaxEvents)

\* The application calls policyGuard.registerPendingTrack itself.
RegisterCall(t) ==
    /\ nAppCalls < MaxAppCalls
    /\ nAppCalls' = nAppCalls + 1
    /\ LET w1 == RegisterPendingTrack(World, t)
       IN  /\ w1.nH <= MaxHandlers
           /\ Commit(w1)
    /\ UNCHANGED <<playOutcome, nEvents, nKinds>>
    /\ UNCHANGED outsideGuard

\* The application calls autoPreloadPlayer(player, trackId, firstCueTime).
AutoPreloadCall(t) ==
    /\ nAppCalls < MaxAppCalls
    /\ nAppCalls' = nAppCalls + 1
    /\ LET r == AutoPreloadSync(World, t)
           w1 == IF r.result = "waiting"
                 THEN Suspend(r.w, [track |-> t, isPass |-> FALSE, rest |-> <<>>])
                 ELSE r.w
       IN  /\ w1.nH <= MaxHandlers
           /\ Commit(w1)
    /\ UNCHANGED <<playOutcome, nEvents, nKinds>>
    /\ UNCHANGED outsideGuard

\* A suspended autoPreloadPlayer call resumes.  "ready" / "partial": the
\* player left the buffering state, it is paused, and the loaded fraction is
\* above / not above the threshold; "timeout": the preroll timeout won the
\* race and the track is registered for retry.
AfterPreroll(w, t, outcome) ==
    IF outcome = "timeout"
    THEN RegisterPendingTrack([w EXCEPT !.yt[t] = Invoke(@, "getPlayerState")], t)
    ELSE [w EXCEPT !.yt[t] = PauseUnmuteVerify(Invoke(@, "getPlayerState")),
                   !.pstate[t] = PauseResult(handle[t], @)]

\* A continuation that goes on with the snapshot without deleting the track.
AfterAwaitKeepsTrack(w, call, outcome) ==
    IF ~call.isPass THEN w ELSE RunPass(w, call.rest)

\* The caller's continuation: a retry pass deletes the track when the retry
\* succeeded and goes on with the rest of its snapshot.
AfterAwait(w, call, outcome) ==
    IF ~call.isPass THEN w
    ELSE RunPass(IF outcome = "ready" THEN DeletePending(w, call.track) ELSE w, call.rest)

PrerollEnds(call, outcome) ==
    /\ BagIn(call, waiting)
    /\ \E w0 \in {[World EXCEPT !.waiting = @ (-) SetToBag({call})]} :
       \E w1 \in {AfterPreroll(w0, call.track, outcome)} :
       \E w2 \in {AfterAwait(w1, call, outcome)} :
           Commit(w2)
    /\ UNCHANGED <<playOutcome, nEvents, nKinds, nAppCalls>>
    /\ UNCHANGED outsideGuard

\* PolicyGuard.clearPendingTracks
ClearPendingTracks ==
    /\ nAppCalls < MaxAppCalls
    /\ nAppCalls' = nAppCalls + 1
    /\ Commit(RemoveRetryListener([World EXCEPT !.pend = <<>>]))
    /\ UNCHANGED <<playOutcome, nEvents, nKinds>>
    /\ UNCHANGED outsideGuard

\* ----------------------------------------------------- autoPreloadMultiple
NoTrack == "none"

MultiIdle ==
    [status |-> "idle", input |-> <<>>, maxPlayers |-> 0, current |-> NoTrack,
     queue |-> <<>>, success |-> <<>>, failed |-> <<>>, skipped |-> <<>>]

\* The maps that can be passed: their track ids in insertion order.
MultiInputs ==
    {s \in UNION {[1 .. n -> Tracks] : n \in 0 .. Cardinality(Tracks)} :
        \A i, j \in DOMAIN s : s[i] = s[j] => i = j}

\* The caps that can be passed; MAX_HIDDEN_PRELOADED_PLAYERS is the default.
MultiCaps == (0 .. MaxCap) \cup {MAX_HIDDEN_PRELOADED_PLAYERS}

\* Array.prototype.slice: an index relative to the array, a negative one
\* counting from its end, clamped to the array.
SliceIndex(k, len) ==
    IF k < 0 THEN Max(len + k, 0) ELSE IF k > len THEN len ELSE k

\* A slice that takes one element more.
SliceOneMore(seq, start, end) ==
    LET a == SliceIndex(start, Len(seq))
        b == SliceIndex(end + 1, Len(seq))
    IN  IF a >= b THEN <<>> ELSE SubSeq(seq, a + 1, b)

\* array.slice(start, end)
Slice(seq, start, end) ==
    LET a == SliceIndex(start, Len(seq))
        b == SliceIndex(end, Len(seq))
    IN  IF a >= b THEN <<>> ELSE SubSeq(seq, a + 1, b)

\* The loop over playersToPreload from the head of m.queue on, until a call
\* of autoPreloadPlayer suspends or the queue is exhausted and the function
\* returns its three lists.
RECURSIVE MultiLoop(_, _)
MultiLoop(w, m) ==
    IF m.queue = <<>>
    THEN [w |-> w, m |-> [m EXCEPT !.status = "resolved", !.current = NoTrack]]
    ELSE LET t == Head(m.queue)
             r == AutoPreloadSync(w, t)
         IN  IF r.result = "waiting"
             THEN [w |-> r.w, m |-> [m EXCEPT !.current = t, !.queue = Tail(@)]]
             ELSE MultiLoop(r.w, [m EXCEPT !.failed = Append(@, t), !.queue = Tail(@)])

\* autoPreloadMultiple(players, firstCueTimes, maxPlayers)
AutoPreloadMultiple(input, maxPlayers) ==
    /\ multi.status = "idle"
    /\ LET m0 == [status |-> "running", input |-> input, maxPlayers |-> maxPlayers,
                  current |-> NoTrack,
                  queue |-> Slice(input, 0, maxPlayers),
                  success |-> <<>>, failed |-> <<>>,
                  skipped |-> Slice(input, maxPlayers, Len(input))]
           r == MultiLoop(World, m0)
       IN  /\ Commit(r.w)
           /\ multi' = r.m
    /\ UNCHANGED <<playOutcome, nEvents, nKinds, nAppCalls>>
    /\ UNCHANGED outsideMulti

\* The autoPreloadPlayer call awaited by the loop resumes and returns.
MultiPrerollEnds(outcome) ==
    /\ multi.status = "running"
    /\ LET t == multi.current
           w1 == AfterPreroll(World, t, outcome)
           m1 == IF outcome = "ready"
                 THEN [multi EXCEPT !.success = Append(@, t)]
                 ELSE [multi EXCEPT !.failed = Append(@, t)]
           r == MultiLoop(w1, m1)
       IN  /\ Commit(r.w)
           /\ multi' = r.m
    /\ UNCHANGED <<playOutcome, nEvents, nKinds, nAppCalls>>
    /\ UNCHANGED outsideMulti

\* ------------------------------------------------- PreloadManager.armAll
\* Times are in ms since the call, loaded fractions in percent.

\* The track ids that can be in the map, in its insertion order.
ArmOrder == <<"trackA", "trackB", "trackC">>

ArmTracks == {ArmOrder[i] : i \in DOMAIN ArmOrder}

\* What the player reports when it is polled: the loaded fraction only grows.
Fractions == {0, READY_THRESHOLD_FRACTION, 2 * READY_THRESHOLD_FRACTION}

NoError == "none"

MsgNotReady == "Player not ready"

MsgAutoplay == "Preload failed: Autoplay blocked - user interaction required"

MsgPlay == "Preload failed: invalid state"

MsgStall == "Preload failed: Network timeout - no buffering progress detected"

MsgStuck == "Preload failed: Player stuck in buffering state"

MsgInsufficient == "Preload failed: Insufficient content loaded"

\* A test that takes every failure of the preload for a gesture error.
MentionsPreloadFailed(msg) == msg \notin {NoError, MsgNotReady}

\* errorMessage.includes('Autoplay blocked') || errorMessage.includes('user gesture')
MentionsGesture(msg) == msg = MsgAutoplay

IdleProc == [phase |-> "idle", due |-> 0, noProgressCount |-> 0, lastLoadedFraction |-> 0]

\* A preloadPlayer call that has returned or thrown: its locals are gone.
Finished(how) == [IdleProc EXCEPT !.phase = how]

\* A world of armAll: the fields one track's preload reads and writes.
ArmWorld ==
    [player |-> armPlayer, proc |-> armProc, callback |-> armCallback, results |-> results,
     log |-> armLog]

\* A method is invoked on the player of track t: the log keeps the track, the
\* method's name and the audio the player had when it was invoked.
ArmInvoke(w, t, cmd) ==
    [w EXCEPT !.log = Append(@, [track |-> t, cmd |-> cmd,
                                 audio |-> [muted |-> w.player[t].muted,
                                            volume |-> w.player[t].volume]])]

\* player.getPlayerState() in the loop of waitForBuffering: the polls of one
\* wait are logged as one, by the first of them (the later ones are made from
\* the loop's timer).
ArmPoll(w, t) ==
    IF w.proc[t].phase = "wait" THEN w ELSE ArmInvoke(w, t, "getPlayerState")

\* A preload that calls playVideo first and mutes afterwards.
ArmPlayBeforeMute(w, t) ==
    LET q == ArmInvoke(w, t, "playVideo")
        v == [ArmInvoke(q, t, "setVolume") EXCEPT !.player[t].volume = 0]
        m == IF v.player[t].muted THEN v
             ELSE [ArmInvoke(v, t, "mute") EXCEPT !.player[t].muted = TRUE]
    IN  ArmInvoke(ArmInvoke(m, t, "setPlaybackRate"), t, "seekTo")

\* preloadPlayer steps 1 to 4 up to the call of playVideo.
ArmMuteRateSeekPlay(w, t) ==
    LET v == [ArmInvoke(w, t, "setVolume") EXCEPT !.player[t].volume = 0]
        m == IF v.player[t].muted THEN v
             ELSE [ArmInvoke(v, t, "mute") EXCEPT !.player[t].muted = TRUE]
    IN  ArmInvoke(ArmInvoke(ArmInvoke(m, t, "setPlaybackRate"), t, "seekTo"), t, "playVideo")

\* A try branch that does not count the track.
CallbackSuccessUncounted(w, t) ==
    [w EXCEPT !.callback[t] = "fulfilled",
              !.proc[t] = Finished("ready")]

\* The callback's try branch after `await this.preloadPlayer(...)`.
CallbackSuccess(w, t) ==
    [w EXCEPT !.results.readyCount = @ + 1,
              !.callback[t] = "fulfilled",
              !.proc[t] = Finished("ready")]

\* A variant of the callback without its catch block: the error leaves the
\* callback and nothing is recorded.
CallbackRethrow(w, t, msg) ==
    [w EXCEPT !.callback[t] = "rejected",
              !.proc[t] = Finished("failed")]

\* The callback's catch block.
CallbackCatch(w, t, msg) ==
    [w EXCEPT !.results.errors[t] = msg,
              !.results.needsGesture = @ \/ MentionsGesture(msg),
              !.callback[t] = "fulfilled",
              !.proc[t] = Finished("failed")]

\* preloadPlayer from pauseVideo() to the settle timer of verifyPlayerReady.
PauseAndVerify(w, t, st) ==
    [ArmInvoke(w, t, "pauseVideo") EXCEPT
              !.player[t].state = IF st = "buffering" THEN "buffering" ELSE "paused",
              !.proc[t] = [IdleProc EXCEPT !.phase = "verify",
                                           !.due = armNow' + VerifySettleMs]]

\* One iteration of the loop of waitForBuffering, the player reporting
\* state st and loaded fraction lf.
BufferingPoll(w, t, st, lf) ==
    LET w1 == [ArmPoll(w, t) EXCEPT
                  !.player[t].state = st, !.player[t].loaded = lf]
        pr == w.proc[t]
    IN  IF st = "buffering" THEN [w1 EXCEPT !.proc[t].phase = "resume"]
        ELSE IF lf = pr.lastLoadedFraction
        THEN IF pr.noProgressCount + 1 > NoProgressLimit
             THEN CallbackCatch(w1, t, MsgStall)
             ELSE [w1 EXCEPT !.proc[t].noProgressCount = @ + 1,
                             !.proc[t].phase = "wait",
                             !.proc[t].due = armNow' + BufferingPollMs]
        ELSE [w1 EXCEPT !.proc[t].noProgressCount = 0,
                        !.proc[t].lastLoadedFraction = lf,
                        !.proc[t].phase = "wait",
                        !.proc[t].due = armNow' + BufferingPollMs]

\* waitForBuffering has returned and preloadPlayer resumes after its await.
Resume(w, t) ==
    IF w.proc[t].phase = "resume" THEN PauseAndVerify(w, t, w.player[t].state) ELSE w

\* preloadPlayer up to its first suspension.
PreloadStart(w, t, st, lf) ==
    IF ~isPlayerReady(armHandle[t]) THEN CallbackCatch(w, t, MsgNotReady)
    ELSE LET w1 == ArmMuteRateSeekPlay(w, t)
         IN  CASE armPlay[t] = "policy" -> CallbackCatch(w1, t, MsgAutoplay)
               [] armPlay[t] = "other" -> CallbackCatch(w1, t, MsgPlay)
               [] OTHER -> BufferingPoll(w1, t, st, lf)

\* A verification that tests the loaded fraction only.
VerifyFractionOnly(w, t, st, lf) ==
    LET w1 == [ArmInvoke(w, t, "getPlayerState") EXCEPT
                  !.player[t].state = st, !.player[t].loaded = lf]
    IN  IF lf < READY_THRESHOLD_FRACTION THEN CallbackCatch(w1, t, MsgInsufficient)
        ELSE CallbackSuccess(w1, t)

\* verifyPlayerReady after its settle delay.
VerifyPlayerReady(w, t, st, lf) ==
    LET w1 == [ArmInvoke(w, t, "getPlayerState") EXCEPT
                  !.player[t].state = st, !.player[t].loaded = lf]
    IN  IF st = "buffering" THEN CallbackCatch(w1, t, MsgStuck)
        ELSE IF lf < READY_THRESHOLD_FRACTION THEN CallbackCatch(w1, t, MsgInsufficient)
        ELSE CallbackSuccess(w1, t)

\* Promise.allSettled(preloadPromises): settled once no callback is pending,
\* whatever the callbacks' outcomes.
AllSettled(cb, input) ==
    IF \A t \in input : cb[t] # "pending" THEN "resolved" ELSE "running"

CommitArm(w) ==
    /\ armPlayer' = w.player
    /\ armProc' = w.proc
    /\ armCallback' = w.callback
    /\ results' = w.results
    /\ armLog' = w.log
    /\ armStatus' = AllSettled(w.callback, armInput')

\* A loop that lets each callback go on after its await before the next
\* callback is started.
RECURSIVE ForEachTrackInTurn(_, _, _, _, _)
ForEachTrackInTurn(w, i, input, st, lf) ==
    IF i > Len(ArmOrder) THEN w
    ELSE LET t == ArmOrder[i]
             polled == t \in DOMAIN st
         IN  ForEachTrackInTurn(
                 IF t \in input
                 THEN Resume(PreloadStart(w, t, IF polled THEN st[t] ELSE "unstarted",
                                                IF polled THEN lf[t] ELSE 0), t)
                 ELSE w,
                 i + 1, input, st, lf)

\* The calls of one task, track after track in the order of the map.
RECURSIVE ForEachTrack(_, _, _, _, _)
ForEachTrack(w, i, input, st, lf) ==
    IF i > Len(ArmOrder) THEN w
    ELSE LET t == ArmOrder[i]
             polled == t \in DOMAIN st
         IN  ForEachTrack(IF t \in input
                          THEN PreloadStart(w, t, IF polled THEN st[t] ELSE "unstarted",
                                                  IF polled THEN lf[t] ELSE 0)
                          ELSE w,
                          i + 1, input, st, lf)

\* The continuations queued while the callbacks were started, track after
\* track: they run once the last callback has been started.
RECURSIVE ResumeEach(_, _)
ResumeEach(w, i) ==
    IF i > Len(ArmOrder) THEN w ELSE ResumeEach(Resume(w, ArmOrder[i]), i + 1)

\* The tracks whose player is polled in the task of the call.
PolledAtStart(input) ==
    {t \in input : isPlayerReady(armHandle[t]) /\ armPlay[t] = "ok"}

\* armAll(playersByTrackId, firstCueTimes): every callback runs up to its
\* first suspension before armAll awaits.
ArmAll(input) ==
    /\ armStatus = "idle"
    /\ armInput' = input
    /\ armNow' = 0
    /\ \E st \in [PolledAtStart(input) -> {"buffering", "playing"}],
          lf \in [PolledAtStart(input) -> Fractions] :
          LET w0 == [ArmWorld EXCEPT
                        !.results = [total |-> Cardinality(input), readyCount |-> 0,
                                     errors |-> [t \in ArmTracks |-> NoError],
                                     needsGesture |-> FALSE],
                        !.callback = [t \in ArmTracks |->
                                         IF t \in input THEN "pending" ELSE "none"]]
          IN  CommitArm(ResumeEach(ForEachTrack(w0, 1, input, st, lf), 1))
    /\ UNCHANGED <<armHandle, armPlay>>
    /\ UNCHANGED outsideArm

\* Position of a track in the map's order.
ArmIndex(t) == CHOOSE i \in DOMAIN ArmOrder : ArmOrder[i] = t

\* The instant at which the timer of track t was set.
TimerSetAt(t) ==
    armProc[t].due - (IF armProc[t].phase = "verify" THEN VerifySettleMs ELSE BufferingPollMs)

\* Timer t fires before timer u: the earlier due; of two due together the one
\* set first; of two set in the same round the one of the earlier track.
FiresBefore(t, u) ==
    \/ armProc[t].due < armProc[u].due
    \/ /\ armProc[t].due = armProc[u].due
       /\ \/ TimerSetAt(t) < TimerSetAt(u)
          \/ TimerSetAt(t) = TimerSetAt(u) /\ ArmIndex(t) < ArmIndex(u)

\* The track whose timer fires next.
TimerDue(t) ==
    /\ armProc[t].phase \in {"wait", "verify"}
    /\ \A u \in ArmTracks \ {t} :
          armProc[u].phase \in {"wait", "verify"} => FiresBefore(t, u)

\* The 50 ms timer of waitForBuffering fires: the loop condition is tested,
\* then the player is polled or the wait ends.
PollTimer(t, st, lf) ==
    /\ TimerDue(t)
    /\ armProc[t].phase = "wait"
    /\ lf >= armPlayer[t].loaded
    /\ armNow' = armProc[t].due
    /\ armInput' = armInput
    /\ IF armNow' < PREROLL_DURATION_MS
       THEN CommitArm(Resume(BufferingPoll(ArmWorld, t, st, lf), t))
       ELSE /\ st = "playing" /\ lf = armPlayer[t].loaded
            /\ CommitArm(PauseAndVerify(ArmWorld, t, armPlayer[t].state))
    /\ UNCHANGED <<armHandle, armPlay>>
    /\ UNCHANGED outsideArm

\* The 200 ms timer of verifyPlayerReady fires.
VerifyTimer(t, st, lf) ==
    /\ TimerDue(t)
    /\ armProc[t].phase = "verify"
    /\ lf >= armPlayer[t].loaded
    /\ armNow' = armProc[t].due
    /\ armInput' = armInput
    /\ CommitArm(VerifyPlayerReady(ArmWorld, t, st, lf))
    /\ UNCHANGED <<armHandle, armPlay>>
    /\ UNCHANGED outsideArm

\* ------------------------------------------------------ the project store
\* Rates are in hundredths.  A JavaScript value that stands where a rate is
\* expected: a finite number, NaN, an infinity, or undefined.
Num(x) == [tag |-> "number", x |-> x]

NaN == [tag |-> "NaN", x |-> 0]

PosInfinity == [tag |-> "Infinity", x |-> 0]

Undefined == [tag |-> "undefined", x |-> 0]

\* typeof rate === 'number' && Number.isFinite(rate)
IsFiniteNumber(v) == v.tag = "number"

\* ALLOWED_RATES.includes(rate)
Includes(v) == v.tag = "number" /\ v.x \in ALLOWED_RATES

\* A sanitizer that lets every finite number through.
SanitizeFiniteOnly(rate) ==
    IF ~IsFiniteNumber(rate) THEN Num(DEFAULT_RATE) ELSE rate

sanitizeTrackRate(rate) ==
    IF ~IsFiniteNumber(rate) THEN Num(DEFAULT_RATE)
    ELSE IF Includes(rate) THEN rate ELSE Num(DEFAULT_RATE)

\* The numeric arguments setTrackRate is called with.
RateArgs ==
    {Num(x) : x \in {0 - 100, 0, 25, 35, 100, 110, 150, 200, 225}} \cup {NaN, PosInfinity}

\* The rates the mixer's controls pass to setTrackRate.
UserRates == {Num(100), Num(150), Num(35)}

\* The rates of the Track objects passed to addTrack and updateTrack.
TrackRates == {Num(100), Num(35), NaN}

\* The rates found in localStorage: written by this or an earlier version of
\* the application, or missing.
PersistedRates == {Num(100), Num(150), Num(35), Undefined}

NoStoreOp == [op |-> "none", id |-> "none", rate |-> Undefined]

StoreOp(op, id, rate) == [op |-> op, id |-> id, rate |-> rate]

\* A track of the store: `verified` records that a preload's verification
\* succeeded for the track since its playerRef was set.
NewTrack(id, rate, ready) ==
    [id |-> id, rate |-> rate, ready |-> ready, playerRef |-> "none", verified |-> FALSE]

\* { ...track, ...updates }, for the fields of a track that are modelled.
Spread(track, updates) ==
    [f \in DOMAIN track |-> IF f \in DOMAIN updates THEN updates[f] ELSE track[f]]

\* state.tracks.map(track => track.id === trackId ? { ...track, ...updates } : track)
MapTrack(tracks, trackId, updates) ==
    [i \in DOMAIN tracks |->
        IF tracks[i].id = trackId THEN Spread(tracks[i], updates) ELSE tracks[i]]

\* The updates passed to updateTrack.
TrackUpdates ==
    {[rate |-> r] : r \in TrackRates} \cup {[ready |-> b] : b \in BOOLEAN}
        \cup {[label |-> "renamed"]}

addTrack(track) ==
    /\ Len(storeTracks) < MaxTracks
    /\ storeTracks' = Append(storeTracks, track)
    /\ lastStoreOp' = StoreOp("addTrack", track.id, Undefined)
    /\ UNCHANGED outsideStore

removeTrack(trackId) ==
    /\ LET Kept(track) == track.id # trackId
       IN  storeTracks' = SelectSeq(storeTracks, Kept)
    /\ lastStoreOp' = StoreOp("removeTrack", trackId, Undefined)
    /\ UNCHANGED outsideStore

updateTrack(trackId, updates) ==
    /\ storeTracks' = MapTrack(storeTracks, trackId, updates)
    /\ lastStoreOp' = StoreOp("updateTrack", trackId, Undefined)
    /\ UNCHANGED outsideStore

setTrackRate(trackId, rate) ==
    /\ storeTracks' = MapTrack(storeTracks, trackId, [rate |-> sanitizeTrackRate(rate)])
    /\ lastStoreOp' = StoreOp("setTrackRate", trackId, rate)
    /\ UNCHANGED outsideStore

setTrackReady(trackId, ready) ==
    /\ storeTracks' = MapTrack(storeTracks, trackId, [ready |-> ready])
    /\ lastStoreOp' = StoreOp("setTrackReady", trackId, Undefined)
    /\ UNCHANGED outsideStore

setAllReady(ready) ==
    /\ storeTracks' = [i \in DOMAIN storeTracks |-> [storeTracks[i] EXCEPT !.ready = ready]]
    /\ lastStoreOp' = StoreOp("setAllReady", "none", Undefined)
    /\ UNCHANGED outsideStore

registerPlayer(trackId, player) ==
    /\ storeTracks' = MapTrack(storeTracks, trackId,
                               [playerRef |-> player, verified |-> FALSE])
    /\ lastStoreOp' = StoreOp("registerPlayer", trackId, Undefined)
    /\ UNCHANGED outsideStore

\* persist's partialize: what every change of the store writes to localStorage.
Partialize(tracks) ==
    [i \in DOMAIN tracks |->
        [tracks[i] EXCEPT !.playerRef = "none", !.verified = FALSE,
                          !.rate = IF Includes(@) THEN @ ELSE Num(DEFAULT_RATE)]]

\* The contents of localStorage the application can start from.
PersistedTracks ==
    {<<>>} \cup {<<NewTrack("video1", r, b)>> : r \in PersistedRates, b \in BOOLEAN}

\* persist's merge: the tracks of the state after hydration.
Merge(persisted) ==
    [i \in DOMAIN persisted |->
        [persisted[i] EXCEPT !.rate = sanitizeTrackRate(@)]]

\* onRehydrateStorage's callback.
OnRehydrate(tracks) ==
    IF \E i \in DOMAIN tracks : ~IsFiniteNumber(tracks[i].rate) \/ ~Includes(tracks[i].rate)
    THEN [i \in DOMAIN tracks |-> [tracks[i] EXCEPT !.rate = sanitizeTrackRate(@)]]
    ELSE tracks

\* The page is loaded again and the store is hydrated from localStorage.
Rehydrate(persisted) ==
    /\ storeTracks' = OnRehydrate(Merge(persisted))
    /\ lastStoreOp' = StoreOp("rehydrate", "none", Undefined)
    /\ UNCHANGED outsideStore

\* ------------------------------------- the page and PreloadControl on the store
PreloadIdle == [running |-> FALSE, ids |-> {}, replaced |-> {}]

\* tracks.find(t => t.id === trackId) finds a track.
HasTrack(tracks, trackId) == \E i \in DOMAIN tracks : tracks[i].id = trackId

\* The first track of `tracks` with id trackId.
FindTrack(tracks, trackId) ==
    tracks[CHOOSE i \in DOMAIN tracks :
               /\ tracks[i].id = trackId
               /\ \A j \in 1 .. (i - 1) : tracks[j].id # trackId]

\* trackWithRate?.rate && trackWithRate.rate !== 1.0
HasSavedRate(tracks, trackId) ==
    /\ HasTrack(tracks, trackId)
    /\ IsFiniteNumber(FindTrack(tracks, trackId).rate)
    /\ FindTrack(tracks, trackId).rate.x \notin {0, DEFAULT_RATE}

\* handlePlayerReady1 / handlePlayerReady2: the new YouTube player of the
\* deck, which plays at the default rate, has fired onReady.
HandlePlayerReady(t, outcome) ==
    /\ remoteRate' = [remoteRate EXCEPT ![t] =
                         IF HasSavedRate(storeTracks, t)
                         THEN RateAfterApply(DEFAULT_RATE, FindTrack(storeTracks, t).rate.x,
                                             outcome)
                         ELSE DEFAULT_RATE]
    /\ LET added == IF HasTrack(storeTracks, t) THEN storeTracks
                    ELSE Append(storeTracks, NewTrack(t, Num(DEFAULT_RATE), FALSE))
           registered == MapTrack(added, t, [playerRef |-> "ok", verified |-> FALSE])
       IN  storeTracks' = MapTrack(registered, t, [ready |-> TRUE])
    /\ lastStoreOp' = StoreOp("setTrackReady", t, Undefined)
    /\ preloadAll' = IF preloadAll.running /\ t \in preloadAll.ids
                     THEN [preloadAll EXCEPT !.replaced = @ \cup {t}]
                     ELSE preloadAll
    /\ UNCHANGED <<transportVars, startVars, padVars, guardVars, armVars,
                 playlistVars>>
    /\ UNCHANGED <<pitchTimers, notified, lastApply>>

\* tracks.filter(track => track.playerRef)
TracksWithPlayers(tracks) ==
    {tracks[i].id : i \in {j \in DOMAIN tracks : tracks[j].playerRef # "none"}}

\* handlePreloadAll up to `await preloadManager.armAll(...)`.
PreloadAllStart ==
    /\ ~preloadAll.running
    /\ TracksWithPlayers(storeTracks) # {}
    /\ preloadAll' = [running |-> TRUE, ids |-> TracksWithPlayers(storeTracks),
                      replaced |-> {}]
    /\ storeTracks' = [i \in DOMAIN storeTracks |-> [storeTracks[i] EXCEPT !.ready = FALSE]]
    /\ lastStoreOp' = StoreOp("setAllReady", "none", Undefined)
    /\ UNCHANGED outsideReady

\* setTrackReady(track.id, summary.errors[track.id] === undefined) for the
\* tracks of `ids` in turn; a track without error passed its verification.
RECURSIVE SetReadyEach(_, _, _)
SetReadyEach(tracks, ids, errors) ==
    IF ids = {} THEN tracks
    ELSE LET id == CHOOSE x \in ids : TRUE
             isReady == id \notin errors
             updates == IF isReady /\ id \notin preloadAll.replaced
                        THEN [ready |-> TRUE, verified |-> TRUE]
                        ELSE [ready |-> isReady]
         IN  SetReadyEach(MapTrack(tracks, id, updates), ids \ {id}, errors)

\* handlePreloadAll after armAll has resolved with a summary whose errors
\* has the keys `errors`.
PreloadAllEnd(errors) ==
    /\ preloadAll.running
    /\ errors \subseteq preloadAll.ids
    /\ storeTracks' = SetReadyEach(storeTracks, preloadAll.ids, errors)
    /\ lastStoreOp' = StoreOp("setTrackReady", "none", Undefined)
    /\ preloadAll' = PreloadIdle
    /\ UNCHANGED outsideReady

\* The page is loaded again: the store is hydrated from what its last change
\* wrote to localStorage, and the components are mounted anew.
Reload ==
    /\ storeTracks' = OnRehydrate(Merge(Partialize(storeTracks)))
    /\ lastStoreOp' = StoreOp("rehydrate", "none", Undefined)
    /\ preloadAll' = PreloadIdle
    /\ UNCHANGED outsideReady

\* ------------------------------------------------------------ PitchControl
NoApply == [track |-> "none", rate |-> 0, outcome |-> "none", returned |-> FALSE]

Abs(x) == IF x >= 0 THEN x ELSE 0 - x

\* quantizeToAllowedRate: the allowed rate closest to rawRate, of two equally
\* close ones the one that comes first in ALLOWED_RATES.
quantizeToAllowedRate(rawRate) ==
    CHOOSE r \in ALLOWED_RATES :
        \A q \in ALLOWED_RATES :
            \/ Abs(r - rawRate) < Abs(q - rawRate)
            \/ Abs(r - rawRate) = Abs(q - rawRate) /\ r <= q

\* displayRateFromTrack
displayRateFromTrack(rate) ==
    IF IsFiniteNumber(rate) /\ Includes(rate) THEN rate.x ELSE DEFAULT_RATE

\* The effect of PitchControl for track t, run after the track's rate, player
\* or ready flag has changed: it fixes an invalid stored rate and calls
\* applyRateToPlayer, whose onError sets the stored rate to 1.0, shows the
\* toast and sets the 100 ms timer.
PitchEffect(t, outcome) ==
    /\ HasTrack(storeTracks, t)
    /\ isPlayerReady(FindTrack(storeTracks, t).playerRef)
    /\ LET track == FindTrack(storeTracks, t)
           rate == displayRateFromTrack(track.rate)
           fixed == IF track.rate # Num(rate)
                    THEN MapTrack(storeTracks, t, [rate |-> sanitizeTrackRate(Num(rate))])
                    ELSE storeTracks
           quantizedRate == quantizeToAllowedRate(quantizeToAllowedRate(rate))
       IN  /\ remoteRate' = [remoteRate EXCEPT ![t] = RateAfterApply(@, quantizedRate, outcome)]
           /\ lastApply' = [track |-> t, rate |-> quantizedRate, outcome |-> outcome,
                            returned |-> (outcome # "throws")]
           /\ IF outcome = "throws"
              THEN /\ storeTracks' = MapTrack(fixed, t,
                                       [rate |-> sanitizeTrackRate(Num(DEFAULT_RATE))])
                   /\ lastStoreOp' = StoreOp("setTrackRate", t, Num(DEFAULT_RATE))
                   /\ notified' = notified \cup {t}
                   /\ pitchTimers' = pitchTimers \cup {t}
              ELSE /\ storeTracks' = fixed
                   /\ lastStoreOp' = IF track.rate # Num(rate)
                                     THEN StoreOp("setTrackRate", t, Num(rate))
                                     ELSE lastStoreOp
                   /\ UNCHANGED <<notified, pitchTimers>>
    /\ UNCHANGED <<transportVars, startVars, padVars, guardVars, armVars, preloadAll,
                 playlistVars>>

\* The 100 ms timer of onError fires: the default rate is applied to the
\* player the track has by then.  Timers for one track are kept as one.
RevertTimer(t, outcome) ==
    /\ t \in pitchTimers
    /\ pitchTimers' = pitchTimers \ {t}
    /\ remoteRate' = IF HasTrack(storeTracks, t)
                        /\ isPlayerReady(FindTrack(storeTracks, t).playerRef)
                     THEN [remoteRate EXCEPT ![t] = RateAfterApply(@, DEFAULT_RATE, outcome)]
                     ELSE remoteRate
    /\ UNCHANGED <<notified, lastApply, storeVars>>
    /\ UNCHANGED <<transportVars, startVars, padVars, guardVars, armVars,
                 playlistVars>>

\* handleRateChange(newRate) of the PitchControl of track t, for a newRate
\* inside the control's range, which the clamp and the rounding to hundredths
\* leave as it is: the rate is stored, and when the track has a usable player
\* the quantized rate is applied to it at once.
HandleRateChange(t, newRate, outcome) ==
    /\ HasTrack(storeTracks, t)
    /\ LET clamped == newRate
           stored == MapTrack(storeTracks, t, [rate |-> sanitizeTrackRate(Num(clamped))])
           usable == isPlayerReady(FindTrack(stored, t).playerRef)
           quantizedRate == quantizeToAllowedRate(quantizeToAllowedRate(clamped))
       IN  IF usable
           THEN /\ remoteRate' = [remoteRate EXCEPT
                                    ![t] = RateAfterApply(@, quantizedRate, outcome)]
                /\ lastApply' = [track |-> t, rate |-> quantizedRate, outcome |-> outcome,
                                 returned |-> (outcome # "throws")]
                /\ IF outcome = "throws"
                   THEN /\ storeTracks' = MapTrack(stored, t,
                                            [rate |-> sanitizeTrackRate(Num(DEFAULT_RATE))])
                        /\ lastStoreOp' = StoreOp("setTrackRate", t, Num(DEFAULT_RATE))
                        /\ notified' = notified \cup {t}
                        /\ pitchTimers' = pitchTimers \cup {t}
                   ELSE /\ storeTracks' = stored
                        /\ lastStoreOp' = StoreOp("setTrackRate", t, Num(clamped))
                        /\ UNCHANGED <<notified, pitchTimers>>
           ELSE /\ storeTracks' = stored
                /\ lastStoreOp' = StoreOp("setTrackRate", t, Num(clamped))
                /\ UNCHANGED <<remoteRate, lastApply, notified, pitchTimers>>
    /\ UNCHANGED <<transportVars, startVars, padVars, guardVars, armVars, preloadAll,
                 playlistVars>>

\* ------------------------------------------------- PlaylistPreloadManager
\* The video ids of the playlist.
VideoIds == 1 .. MaxVideos

\* private maxPreloads: number = 3
DefaultMaxPreloads == 3
\* The largest maximum setMaxPreloads accepts.
MaxPreloadsLimit == 10

\* The arrays passed to preloadCandidates: runs of consecutive playlist
\* entries, the empty array among them.
PlaylistInputs ==
    {[i \in 1 .. (b - a + 1) |-> a + i - 1] : a \in VideoIds, b \in 0 .. MaxVideos}

\* The counts passed to setMaxPreloads: below, inside and above the range.
PreloadCounts == {0 - 1, 1, 2, DefaultMaxPreloads, MaxPreloadsLimit + 1}

NoPlaylistCall ==
    [status |-> "idle", candidates |-> <<>>, i |-> 0, success |-> <<>>, failed |-> <<>>]

\* The manager after construction.
PlaylistIdle ==
    /\ hiddenPlayers = <<>>
    /\ maxPreloads = DefaultMaxPreloads
    /\ playlistCall = NoPlaylistCall

\* Array.from(hiddenPlayers.keys())
HiddenKeys(hp) == [k \in 1 .. Len(hp) |-> hp[k].videoId]

HasHidden(hp, videoId) == \E k \in 1 .. Len(hp) : hp[k].videoId = videoId

\* hiddenPlayers.set(videoId, hiddenPlayer): a key the map holds keeps its
\* place, a new key goes last.
HiddenSet(hp, videoId, ready) ==
    IF HasHidden(hp, videoId)
    THEN [k \in 1 .. Len(hp) |->
            IF hp[k].videoId = videoId THEN [videoId |-> videoId, ready |-> ready]
            ELSE hp[k]]
    ELSE Append(hp, [videoId |-> videoId, ready |-> ready])

\* hiddenPlayers.delete(videoId), as removePreloadedPlayer does for a player
\* the map holds.
HiddenDelete(hp, videoId) == SelectSeq(hp, LAMBDA e : e.videoId # videoId)

\* cleanupExcessPlayers: the keys from position max on are removed once the
\* map is larger than max.
CleanupExcessPlayers(hp, max) ==
    IF Len(hp) <= max THEN hp
    ELSE LET playersToRemove == Slice(HiddenKeys(hp), max, Len(hp))
         IN  SelectSeq(hp, LAMBDA e :
                 \A k \in 1 .. Len(playersToRemove) : playersToRemove[k] # e.videoId)

\* setMaxPreloads(count)
SetMaxPreloads(count) ==
    LET max == Max(0, Min(MaxPreloadsLimit, count))
    IN  /\ maxPreloads' = max
        /\ hiddenPlayers' = CleanupExcessPlayers(hiddenPlayers, max)
        /\ UNCHANGED playlistCall
        /\ UNCHANGED outsidePlaylist

\* preloadCandidates(videoIds) up to its first await: the candidates are the
\* head of the array, and the call returns at once when there is none.  One
\* call is followed at a time.
PreloadCandidates(videoIds) ==
    LET candidatesToPreload == Slice(videoIds, 0, maxPreloads)
    IN  /\ playlistCall.status # "awaiting"
        /\ playlistCall' =
               [status |-> IF candidatesToPreload = <<>> THEN "returned" ELSE "awaiting",
                candidates |-> candidatesToPreload,
                i |-> IF candidatesToPreload = <<>> THEN 0 ELSE 1,
                success |-> <<>>, failed |-> <<>>]
        /\ UNCHANGED <<hiddenPlayers, maxPreloads>>
        /\ UNCHANGED outsidePlaylist

\* The promise of createHiddenPlayer settles for the candidate the loop is
\* at: resolved with a player that is ready or not, or rejected.  A resolved
\* player is put into the map, and the loop goes on to its next await or the
\* call returns.
HiddenPlayerSettles(outcome) ==
    /\ playlistCall.status = "awaiting"
    /\ LET videoId == playlistCall.candidates[playlistCall.i]
           last == playlistCall.i = Len(playlistCall.candidates)
       IN  /\ hiddenPlayers' = IF outcome = "error" THEN hiddenPlayers
                               ELSE HiddenSet(hiddenPlayers, videoId, outcome = "ready")
           /\ playlistCall' =
                  [playlistCall EXCEPT
                     !.success = IF outcome = "error" THEN @ ELSE Append(@, videoId),
                     !.failed = IF outcome = "error" THEN Append(@, videoId) ELSE @,
                     !.status = IF last THEN "returned" ELSE "awaiting",
                     !.i = IF last THEN @ ELSE @ + 1]
    /\ UNCHANGED maxPreloads
    /\ UNCHANGED outsidePlaylist

\* removePreloadedPlayer(videoId)
RemovePreloadedPlayer(videoId) ==
    /\ hiddenPlayers' = IF HasHidden(hiddenPlayers, videoId)
                        THEN HiddenDelete(hiddenPlayers, videoId)
                        ELSE hiddenPlayers
    /\ UNCHANGED <<maxPreloads, playlistCall>>
    /\ UNCHANGED outsidePlaylist

\* clearAll(): every key of the map is removed.
RECURSIVE RemoveEach(_, _)
RemoveEach(hp, ids) ==
    IF ids = <<>> THEN hp
    ELSE RemoveEach(HiddenDelete(hp, Head(ids)), Tail(ids))

ClearAll ==
    /\ hiddenPlayers' = RemoveEach(hiddenPlayers, HiddenKeys(hiddenPlayers))
    /\ UNCHANGED <<maxPreloads, playlistCall>>
    /\ UNCHANGED outsidePlaylist

\* ------------------------------------------------------------ environment

\* The clock advances; a timer that is due runs before the clock's next step.
Tick ==
    /\ now < MaxTicks * TickMs
    /\ \A tm \in timers : tm.due > now
    /\ now' = now + TickMs
    /\ UNCHANGED <<handle, playerState, playerPos, timers, scheduledPlays, nScheds,
                   execLog, onPlayRan, superseded, cancelled, lastOp, touched>>
    /\ UNCHANGED outsideTransport

\* --------------------------------------------------------- specifications
PadsIdle ==
    /\ deckReady = [d \in Decks |-> FALSE]
    /\ pads = [d \in Decks |-> [i \in PadIds |->
                  [timestamp |-> UnsetTimestamp, isPlaying |-> FALSE]]]
    /\ currentlyPlayingRef = [d \in Decks |-> 0 - 1]
    /\ nEdits = 0
    /\ lastPadOp = NoPadOp
    /\ playerLoading = [d \in Decks |-> TRUE]
    /\ pausedEvents = [d \in Decks |-> FALSE]

TransportIdle ==
    /\ now = 0
    /\ playerState = [t \in Tracks |-> "unstarted"]
    /\ playerPos = [t \in Tracks |-> 0]
    /\ timers = {}
    /\ scheduledPlays = [t \in Tracks |-> 0]
    /\ nScheds = 0
    /\ execLog = [s \in 1 .. MaxScheds |-> <<>>]
    /\ onPlayRan = {}
    /\ superseded = {}
    /\ cancelled = {}
    /\ lastOp = [op |-> "none", tracks |-> {}, repeat |-> FALSE]
    /\ touched = {}

GuardQuiet ==
    /\ pendingTracks = <<>>
    /\ retryListener = 0
    /\ domListeners = {}
    /\ nHandlers = 0
    /\ waiting = EmptyBag
    /\ attempts = [t \in Tracks |-> 0]
    /\ dropped = {}
    /\ nEvents = 0
    /\ nKinds = 0
    /\ nAppCalls = 0
    /\ multi = MultiIdle

\* New players are not muted and at full volume.
GuardIdle ==
    /\ GuardQuiet
    /\ ytPlayer = [t \in Tracks |-> [audio |-> [muted |-> FALSE, volume |-> 100],
                                    log |-> <<>>]]

ArmIdle ==
    /\ armPlayer = [t \in ArmTracks |->
                      [state |-> "unstarted", loaded |-> 0, muted |-> FALSE, volume |-> 100]]
    /\ armInput = {}
    /\ armStatus = "idle"
    /\ armProc = [t \in ArmTracks |-> IdleProc]
    /\ armCallback = [t \in ArmTracks |-> "none"]
    /\ results = [total |-> 0, readyCount |-> 0,
                  errors |-> [t \in ArmTracks |-> NoError], needsGesture |-> FALSE]
    /\ armNow = 0
    /\ armLog = <<>>

ArmUnused ==
    /\ ArmIdle
    /\ armHandle = [t \in ArmTracks |-> "none"]
    /\ armPlay = [t \in ArmTracks |-> "ok"]

StoreIdle ==
    /\ storeTracks = <<>>
    /\ lastStoreOp = NoStoreOp
    /\ preloadAll = PreloadIdle

StartIdle == startReport = NoStart

PitchIdle ==
    /\ remoteRate = [t \in Tracks |-> DEFAULT_RATE]
    /\ pitchTimers = {}
    /\ notified = {}
    /\ lastApply = NoApply

InitTransport ==
    /\ StoreIdle
    /\ StartIdle
    /\ PitchIdle
    /\ PlaylistIdle
    /\ TransportIdle
    /\ handle \in [Tracks -> HandleKinds]
    /\ PadsIdle
    /\ GuardIdle
    /\ ArmUnused
    /\ playOutcome = [t \in Tracks |-> "ok"]

NextTransport ==
    \/ \E t \in Tracks, tt \in TargetTimes, la \in Lookaheads : SchedulePlay(t, tt, la)
    \/ \E t \in Tracks : SchedulePlayNotReady(t)
    \/ \E tm \in timers : FireSeek(tm)
    \/ \E tm \in timers : FirePlay(tm)
    \/ \E t \in Tracks : CancelScheduledPlay(t)
    \/ CancelAllScheduledPlays
    \/ \E ts \in SUBSET Tracks : StopTransport(ts)
    \/ Tick

Init == InitTransport

SpecTransport == InitTransport /\ [][NextTransport]_vars

\* The transport is started, played at once and stopped: the tracks come
\* with their ready flags and rates.
NextStart ==
    \/ \E ts \in SUBSET Tracks : \E ready \in [ts -> BOOLEAN], rate \in [ts -> {100, 300}],
          la \in Lookaheads, o \in RateOutcomes : StartTransport(ts, ready, rate, la, o)
    \/ \E t \in Tracks : SchedulePlay(t, 0, 0)
    \/ \E ts \in SUBSET Tracks : StopTransport(ts)

SpecStart == InitTransport /\ [][NextStart]_vars

InitPads ==
    /\ StoreIdle
    /\ StartIdle
    /\ PitchIdle
    /\ PlaylistIdle
    /\ PadsIdle
    /\ TransportIdle
    /\ GuardIdle
    /\ ArmUnused
    /\ playOutcome = [t \in Tracks |-> "ok"]
    /\ handle = [t \in Tracks |-> "none"]

NextPads ==
    \/ \E d \in Decks, ts \in PadTimes : PadTrigger(d, ts)
    \/ \E d \in Decks : PadStop(d)
    \/ \E d \in Decks, id \in PadIds, ts \in PadTimes : UpdatePad(d, id, ts)
    \/ \E d \in Decks : PlayerReady(d)

SpecPads == InitPads /\ [][NextPads]_vars

\* The page with its load forms as well.
NextPage ==
    \/ \E d \in Decks, ts \in PadTimes : PadTrigger(d, ts)
    \/ \E d \in Decks : PadStop(d)
    \/ \E d \in Decks, id \in PadIds, ts \in PadTimes : UpdatePad(d, id, ts)
    \/ \E d \in Decks : PlayerReady(d)
    \/ \E d \in Decks, same \in BOOLEAN : UrlSubmit(d, same)

SpecPage == InitPads /\ [][NextPage]_vars

\* The page with pads activated by click, touch or key, and the players'
\* state-change events delivered after the calls that caused them.
NextPadEvents ==
    \/ \E d \in Decks, id \in PadIds : PadActivate(d, id)
    \/ \E d \in Decks : PadStop(d)
    \/ \E d \in Decks, id \in PadIds, ts \in PadTimes : UpdatePad(d, id, ts)
    \/ \E d \in Decks : PlayerReady(d)
    \/ \E d \in Decks, same \in BOOLEAN : UrlSubmit(d, same)
    \/ \E d \in Decks : PlayerStateChange(d)

SpecPadEvents == InitPads /\ [][NextPadEvents]_vars

InitGuard ==
    /\ StoreIdle
    /\ StartIdle
    /\ PitchIdle
    /\ PlaylistIdle
    /\ GuardIdle
    /\ ArmUnused
    /\ handle \in [Tracks -> {"ok", "broken"}]
    /\ playOutcome \in [Tracks -> PlayOutcomes]
    /\ \A t \in Tracks : ~isPlayerReady(handle[t]) => playOutcome[t] = "ok"
    /\ TransportIdle
    /\ PadsIdle

NextGuard ==
    \/ \E k \in DOMAIN EventOrder : UserEvent(k)
    \/ \E t \in Tracks : RegisterCall(t)
    \/ \E t \in Tracks : AutoPreloadCall(t)
    \/ \E call \in BagToSet(waiting) : \E o \in {"ready", "partial", "timeout"} :
          PrerollEnds(call, o)
    \/ ClearPendingTracks

SpecGuard == InitGuard /\ [][NextGuard]_vars

\* Every await of a preroll ends: the wait is raced against a timer of
\* PREROLL_TIMEOUT_MS.
PrerollProgress ==
    \E call \in BagToSet(waiting) : \E o \in {"ready", "partial", "timeout"} :
        PrerollEnds(call, o)

\* A waiting call is resumed: the browser runs the timer of the race and
\* the continuation of the await.
SpecGuardFair ==
    SpecGuard /\ WF_vars(PrerollProgress)

\* The Policy Guard over longer runs of interactions on usable players: tracks become pending
\* through autoPreloadPlayer and are retried by the handlers.
NextRetry ==
    \/ \E k \in DOMAIN EventOrder : Interaction(k, MaxInteractions)
    \/ \E t \in Tracks : AutoPreloadCall(t)
    \/ \E call \in BagToSet(waiting) : \E o \in {"ready", "partial", "timeout"} :
          PrerollEnds(call, o)

InitRetry ==
    /\ StoreIdle
    /\ StartIdle
    /\ PitchIdle
    /\ PlaylistIdle
    /\ GuardIdle
    /\ ArmUnused
    /\ handle = [t \in Tracks |-> "ok"]
    /\ playOutcome \in [Tracks -> {"ok", "policy"}]
    /\ TransportIdle
    /\ PadsIdle

SpecRetry == InitRetry /\ [][NextRetry]_vars

InitMulti ==
    /\ StoreIdle
    /\ StartIdle
    /\ PitchIdle
    /\ PlaylistIdle
    /\ GuardQuiet
    /\ ytPlayer \in [Tracks -> [audio : [muted : BOOLEAN, volume : {100}], log : {<<>>}]]
    /\ ArmUnused
    /\ handle \in [Tracks -> {"ok", "broken"}]
    /\ playOutcome \in [Tracks -> PlayOutcomes]
    /\ \A t \in Tracks : ~isPlayerReady(handle[t]) => playOutcome[t] = "ok"
    /\ TransportIdle
    /\ PadsIdle

NextMulti ==
    \/ \E input \in MultiInputs, maxPlayers \in MultiCaps :
          AutoPreloadMultiple(input, maxPlayers)
    \/ \E o \in {"ready", "partial", "timeout"} : MultiPrerollEnds(o)

SpecMulti == InitMulti /\ [][NextMulti]_vars

InitStore ==
    /\ StoreIdle
    /\ StartIdle
    /\ PitchIdle
    /\ PlaylistIdle
    /\ PadsIdle
    /\ TransportIdle
    /\ GuardIdle
    /\ ArmUnused
    /\ playOutcome = [t \in Tracks |-> "ok"]
    /\ handle = [t \in Tracks |-> "none"]

NextStore ==
    \/ \E id \in Tracks, r \in TrackRates, b \in BOOLEAN : addTrack(NewTrack(id, r, b))
    \/ \E id \in Tracks : removeTrack(id)
    \/ \E id \in Tracks, u \in TrackUpdates : updateTrack(id, u)
    \/ \E id \in Tracks, r \in RateArgs : setTrackRate(id, r)
    \/ \E id \in Tracks, b \in BOOLEAN : setTrackReady(id, b)
    \/ \E b \in BOOLEAN : setAllReady(b)
    \/ \E id \in Tracks, h \in HandleKinds \ {"none"} : registerPlayer(id, h)
    \/ \E p \in PersistedTracks \cup {Partialize(storeTracks)} : Rehydrate(p)

SpecStore == InitStore /\ [][NextStore]_vars

\* The store as the page and PreloadControl use it.
NextReady ==
    \/ \E t \in Tracks, o \in RateOutcomes : HandlePlayerReady(t, o)
    \/ PreloadAllStart
    \/ \E errors \in SUBSET Tracks : PreloadAllEnd(errors)
    \/ \E id \in Tracks : removeTrack(id)
    \/ \E id \in Tracks, r \in UserRates : setTrackRate(id, r)
    \/ Reload

SpecReady == InitStore /\ [][NextReady]_vars

\* The rate of a track and of its player: set by the user, applied by
\* PitchControl.
NextPitch ==
    \/ \E t \in Tracks, o \in RateOutcomes : HandlePlayerReady(t, o)
    \/ \E id \in Tracks, r \in UserRates : setTrackRate(id, r)
    \/ \E t \in Tracks, o \in RateOutcomes : PitchEffect(t, o)
    \/ \E t \in Tracks, o \in RateOutcomes : RevertTimer(t, o)

SpecPitch == InitStore /\ [][NextPitch]_vars

InitArm ==
    /\ StoreIdle
    /\ StartIdle
    /\ PitchIdle
    /\ PlaylistIdle
    /\ ArmIdle
    /\ armHandle \in [ArmTracks -> {"ok", "broken"}]
    /\ armPlay \in [ArmTracks -> PlayOutcomes]
    /\ \A t \in ArmTracks : ~isPlayerReady(armHandle[t]) => armPlay[t] = "ok"
    /\ TransportIdle
    /\ handle = [t \in Tracks |-> "none"]
    /\ PadsIdle
    /\ GuardIdle
    /\ playOutcome = [t \in Tracks |-> "ok"]

NextArm ==
    \/ \E input \in SUBSET ArmTracks : ArmAll(input)
    \/ \E t \in ArmTracks, st \in {"buffering", "playing"}, lf \in Fractions :
          PollTimer(t, st, lf)
    \/ \E t \in ArmTracks, st \in {"buffering", "paused"}, lf \in Fractions :
          VerifyTimer(t, st, lf)

SpecArm == InitArm /\ [][NextArm]_vars

\* Single preload attempts through either entry: armAll on one track, or
\* autoPreloadMultiple; the players of the other entry are absent.
InitAttempts == InitArm \/ InitMulti

NextAttempts ==
    \/ \E t \in ArmTracks : ArmAll({t})
    \/ \E t \in ArmTracks, st \in {"buffering", "playing"}, lf \in Fractions :
          PollTimer(t, st, lf)
    \/ \E t \in ArmTracks, st \in {"buffering", "paused"}, lf \in Fractions :
          VerifyTimer(t, st, lf)
    \/ \E input \in MultiInputs, maxPlayers \in MultiCaps :
          AutoPreloadMultiple(input, maxPlayers)
    \/ \E o \in {"ready", "partial", "timeout"} : MultiPrerollEnds(o)

SpecAttempts == InitAttempts /\ [][NextAttempts]_vars

\* The core operations on handles of every kind: the transport started,
\* played at once and stopped, armAll on one track, autoPreloadPlayer called
\* by the application.  The handles of the transport and of autoPreloadPlayer
\* are of any kind while armAll's map holds absent players, or the players of
\* the map are of one kind while the tracks of the transport have none.
InitCore ==
    /\ StoreIdle
    /\ StartIdle
    /\ PitchIdle
    /\ PlaylistIdle
    /\ TransportIdle
    /\ PadsIdle
    /\ GuardIdle
    /\ ArmIdle
    /\ playOutcome = [t \in Tracks |-> "ok"]
    /\ armPlay = [t \in ArmTracks |-> "ok"]
    /\ \/ /\ handle \in [Tracks -> HandleKinds]
          /\ armHandle = [t \in ArmTracks |-> "none"]
       \/ /\ handle = [t \in Tracks |-> "none"]
          /\ \E k \in HandleKinds : armHandle = [t \in ArmTracks |-> k]

NextCore ==
    \/ \E ready \in [Tracks -> BOOLEAN], o \in RateOutcomes :
          StartTransport(Tracks, ready, [t \in Tracks |-> DEFAULT_RATE], 0, o)
    \/ \E t \in Tracks : SchedulePlay(t, 0, 0)
    \/ \E t \in Tracks : SchedulePlayNotReady(t)
    \/ StopTransport(Tracks)
    \/ \E t \in ArmTracks : ArmAll({t})
    \/ \E t \in ArmTracks, st \in {"buffering", "playing"}, lf \in Fractions :
          PollTimer(t, st, lf)
    \/ \E t \in ArmTracks, st \in {"buffering", "paused"}, lf \in Fractions :
          VerifyTimer(t, st, lf)
    \/ \E t \in Tracks : AutoPreloadCall(t)
    \/ \E call \in BagToSet(waiting) : \E o \in {"ready", "partial", "timeout"} :
          PrerollEnds(call, o)

SpecCore == InitCore /\ [][NextCore]_vars

\* The playlist preload manager alone.
InitPlaylist ==
    /\ StoreIdle
    /\ StartIdle
    /\ PitchIdle
    /\ PlaylistIdle
    /\ PadsIdle
    /\ TransportIdle
    /\ GuardIdle
    /\ ArmUnused
    /\ playOutcome = [t \in Tracks |-> "ok"]
    /\ handle = [t \in Tracks |-> "none"]

NextPlaylist ==
    \/ \E videoIds \in PlaylistInputs : PreloadCandidates(videoIds)
    \/ \E outcome \in {"ready", "notReady", "error"} : HiddenPlayerSettles(outcome)
    \/ \E count \in PreloadCounts : SetMaxPreloads(count)
    \/ \E videoId \in VideoIds : RemovePreloadedPlayer(videoId)
    \/ ClearAll

SpecPlaylist == InitPlaylist /\ [][NextPlaylist]_vars

\* The rates the pitch control's slider and buttons pass to handleRateChange,
\* in hundredths.
ControlRates == {35, 100, 150}

\* The pitch control of each track, used while players come and go.
NextRate ==
    \/ \E t \in Tracks, o \in RateOutcomes : HandlePlayerReady(t, o)
    \/ \E t \in Tracks, r \in ControlRates, o \in RateOutcomes : HandleRateChange(t, r, o)
    \/ \E t \in Tracks, o \in RateOutcomes : PitchEffect(t, o)
    \/ \E t \in Tracks, o \in RateOutcomes : RevertTimer(t, o)
    \/ \E id \in Tracks : removeTrack(id)

SpecRate == InitStore /\ [][NextRate]_vars

\* ------------------------------------------------------------------ claims

\* C1: once a schedule has been replaced by a later schedulePlay call for the
\* same track, made while its play was still pending, none of its callbacks
\* (deferred seek, deferred play, onPlay) is executed any more.
C1_SupersededNeverRuns ==
    [][\A s \in superseded :
          /\ execLog'[s] = execLog[s]
          /\ (s \in onPlayRan') = (s \in onPlayRan)]_vars

\* C2: once a pending schedule has been cancelled (stopTransport,
\* cancelScheduledPlay, cancelAllScheduledPlays), neither its deferred seek
\* nor its deferred play is executed afterwards.
C2_CancelledNeverRuns ==
    [][\A s \in cancelled : execLog'[s] = execLog[s]]_vars

\* C9: stopTransport is idempotent: after each call every track passed to it
\* is paused and nothing is scheduled, and a second call in a row changes
\* neither the players nor the schedule.
C9_StopIdempotent ==
    [][/\ (lastOp'.op = "stopTransport") =>
             /\ \A t \in lastOp'.tracks : playerState'[t] # "playing"
             /\ \A t \in Tracks : scheduledPlays'[t] = 0
             /\ \A tm \in timers' : tm.kind # "play"
       /\ (lastOp'.repeat /\ ~lastOp.repeat) =>
             /\ playerState' = playerState
             /\ timers' = timers
             /\ scheduledPlays' = scheduledPlays]_vars

\* C9 witness: stopTransport was called twice in a row on a track that was
\* playing before the first call.
C9_Witness ==
    /\ lastOp.op = "stopTransport"
    /\ lastOp.repeat
    /\ \E t \in lastOp.tracks : playerState[t] = "paused"

\* C10: within one schedule the seek never executes after the play.
C10_SeekBeforePlay ==
    \A s \in 1 .. MaxScheds :
        \A i, j \in DOMAIN execLog[s] :
            (execLog[s][i] = "seek" /\ execLog[s][j] = "play") => i < j

\* C10 witness: a schedule whose seek and play were both deferred and both ran.
C10_Witness == \E s \in 1 .. MaxScheds : execLog[s] = <<"seek", "play">>

\* C3: after any sequence of pad triggers on the two decks, at most one deck
\* has a pad marked playing.
DecksWithPlayingPad == {d \in Decks : \E i \in PadIds : pads[d][i].isPlaying}

PolicyRejected == {t \in Tracks : isPlayerReady(handle[t]) /\ playOutcome[t] = "policy"}

\* C4: a pending track that the autoplay policy rejects on every gesture is
\* retried by each gesture made while it is pending, is never retried more
\* than maxRetries times, and is not retried again once it has been dropped.
C4_RetriedUntilDropped ==
    [][\A t \in PolicyRejected :
          /\ (nEvents' > nEvents /\ IsPending(pendingTracks, t)) =>
                attempts'[t] > attempts[t]
          /\ attempts'[t] <= maxRetries
          /\ t \in dropped => attempts'[t] = attempts[t]]_vars

\* The retry handlers attached to the document for at least one event type.
AttachedHandlers == {l.handler : l \in domListeners}

\* C5: at most one retry handler is attached to the page at any time.
C5_AtMostOneHandler == Cardinality(AttachedHandlers) <= 1

\* C6: whenever a track is pending, a retry listener is attached for every
\* qualifying interaction type, so that the next one starts a retry pass.
C6_ListenerArmedWhilePending ==
    pendingTracks # <<>> => \A e \in EventTypes : Listening(domListeners, e) # {}

\* A track of armAll that can succeed: its player passes the capability
\* guard, accepts play, and was last seen out of buffering with enough
\* content loaded.
Healthy(t) ==
    /\ isPlayerReady(armHandle[t])
    /\ armPlay[t] = "ok"
    /\ armPlayer[t].state # "buffering"
    /\ armPlayer[t].loaded >= READY_THRESHOLD_FRACTION

\* C7: armAll never rejects, and a failure stays with its track: a track
\* whose player fails the capability guard is reported as not ready, every
\* other track is still processed, and when armAll resolves a track is in
\* errors exactly when it failed itself, all others counting as ready.
C7_ArmAllIsolatesFailures ==
    /\ armStatus # "rejected"
    /\ \A t \in armInput : ~isPlayerReady(armHandle[t]) => results.errors[t] = MsgNotReady
    /\ \A t \in armInput : isPlayerReady(armHandle[t]) => armPlayer[t].muted
    /\ armStatus = "resolved" =>
          /\ \A t \in armInput : (results.errors[t] = NoError) <=> Healthy(t)
          /\ \A t \in ArmTracks \ armInput : results.errors[t] = NoError
          /\ results.readyCount = Cardinality({t \in armInput : Healthy(t)})

\* C7 witness: armAll resolved for three tracks of which the middle one has a
\* broken player: the two others are ready, only the broken one is in errors.
C7_Witness ==
    /\ armStatus = "resolved"
    /\ armInput = ArmTracks
    /\ armHandle = [t \in ArmTracks |-> IF t = "trackB" THEN "broken" ELSE "ok"]
    /\ results.errors = [t \in ArmTracks |-> IF t = "trackB" THEN MsgNotReady ELSE NoError]
    /\ results.readyCount = 2

\* C8: a track whose play step was blocked by the autoplay policy during
\* armAll is pending with the Policy Guard and a click listener is attached.
C8_BlockedTrackIsPending ==
    \A t \in ArmTracks :
        results.errors[t] = MsgAutoplay =>
            /\ IsPending(pendingTracks, t)
            /\ Listening(domListeners, "click") # {}

\* C11: in a schedulePlay call each of the two steps of the new schedule is
\* either deferred to a timer that is due later or executed during the call:
\* a step whose deadline has already passed is executed at once, not skipped.
C11_PassedStepRunsAtOnce ==
    [][nScheds' = nScheds + 1 =>
          \A k \in {"seek", "play"} :
              \/ \E tm \in timers' : tm.sched = nScheds' /\ tm.kind = k /\ tm.due > now
              \/ \E i \in DOMAIN execLog'[nScheds'] : execLog'[nScheds'][i] = k]_vars

\* The decks whose player is playing.
PlayingDecks == {d \in Decks : playerState[d] = "playing"}

\* C12: after a pad trigger on a deck whose player is ready, that deck is the
\* only deck whose player is playing: every other playing deck was paused.
C12_OnlyTargetPlays ==
    (lastPadOp.op = "trigger" /\ deckReady[lastPadOp.deck]) =>
        PlayingDecks = {lastPadOp.deck}

\* C13: after a pad trigger with timestamp t on a deck whose player is ready,
\* a pad of that deck is marked playing if and only if its timestamp is t,
\* whatever markers were set before.
C13_MarkedIffMatching ==
    (lastPadOp.op = "trigger" /\ deckReady[lastPadOp.deck]) =>
        \A i \in PadIds :
            pads[lastPadOp.deck][i].isPlaying <=>
                pads[lastPadOp.deck][i].timestamp = lastPadOp.timestamp

\* The re-attempts a suspended retry pass still has to make for track t:
\* the suspended pass calls whose rest of snapshot holds t.
RECURSIVE OwedIn(_, _, _)
OwedIn(bag, calls, t) ==
    IF calls = {} THEN 0
    ELSE LET c == CHOOSE x \in calls : TRUE
         IN  (IF c.isPass /\ \E i \in DOMAIN c.rest : c.rest[i] = t
              THEN CopiesIn(c, bag) ELSE 0) + OwedIn(bag, calls \ {c}, t)

Owed(t) == OwedIn(waiting, BagToSet(waiting), t)

\* A retry handler was called by the event of this step: its listener left
\* the document.
HandlerFired == nEvents' = nEvents + 1 /\ domListeners \ domListeners' # {}

\* C14: when an interaction calls the retry handler, every track pending at
\* that moment is re-attempted in that step or is owed a re-attempt by the
\* suspended pass; an owed re-attempt is never lost and is eventually made;
\* and when a pass's re-attempt of a track succeeds, the track is no longer
\* pending.
C14_PassRetriesEveryPending ==
    /\ [][HandlerFired =>
             \A t \in Tracks : IsPending(pendingTracks, t) =>
                 attempts'[t] + Owed(t)' > attempts[t] + Owed(t)]_vars
    /\ [][\A t \in Tracks : attempts'[t] + Owed(t)' >= attempts[t] + Owed(t)]_vars
    /\ \A t \in Tracks : (Owed(t) > 0) ~> (Owed(t) = 0)
    /\ [][\A c \in BagToSet(waiting) :
             (c.isPass /\ PrerollEnds(c, "ready")) =>
                 ~IsPending(pendingTracks', c.track)]_vars

\* C14 witness: one interaction found two tracks pending, its pass
\* re-attempted both and has finished; the re-attempt of one succeeded and
\* that track is no longer pending, the other still is.
C14_Witness ==
    /\ nEvents = 1
    /\ \A t \in Tracks : attempts[t] = 1
    /\ waiting = EmptyBag
    /\ dropped = {}
    /\ Len(pendingTracks) = 1
    /\ \E t \in Tracks : ~IsPending(pendingTracks, t) /\ playerState[t] = "paused"

\* C15: when clearPendingTracks returns, no track is pending and no retry
\* handler is left attached to the document, so that a later interaction
\* calls no handler attached before the clear.
C15_ClearDetachesListener ==
    [][ClearPendingTracks => (pendingTracks' = <<>> /\ AttachedHandlers' = {})]_vars

\* The input tracks whose callback counted them ready, and those with an
\* entry in errors.
CountedReady == {t \in armInput : armProc[t].phase = "ready"}

InErrors == {t \in ArmTracks : results.errors[t] # NoError}

\* C16: in the summary armAll resolves with, total is the number of input
\* tracks and every input track is either counted in readyCount or has an
\* entry in errors, never both, so that readyCount + |errors| = total.
C16_SummaryAccountsForEveryTrack ==
    armStatus = "resolved" =>
        /\ results.total = Cardinality(armInput)
        /\ results.readyCount = Cardinality(CountedReady)
        /\ CountedReady \cup InErrors = armInput
        /\ CountedReady \cap InErrors = {}
        /\ results.readyCount + Cardinality(InErrors) = results.total

\* C16 witness: armAll resolved for three tracks, one counted ready and two
\* in errors, one of these failing before its preload started and the other
\* after its waits.
C16_Witness ==
    /\ armStatus = "resolved"
    /\ armInput = ArmTracks
    /\ results.readyCount = 1
    /\ \E t \in ArmTracks : results.errors[t] = MsgNotReady
    /\ \E t \in ArmTracks : results.errors[t] = MsgInsufficient

\* The input tracks whose play step the autoplay policy rejects.
PolicyBlocked == {t \in armInput : isPlayerReady(armHandle[t]) /\ armPlay[t] = "policy"}

\* C17: the summary's needsGesture flag is true exactly when the play step of
\* at least one input track was rejected by the autoplay policy; no other
\* failure sets it.
C17_GestureFlagIffPolicyRejection ==
    armStatus = "resolved" => (results.needsGesture <=> PolicyBlocked # {})

\* C17 witness: armAll resolved with tracks failing for other reasons (player
\* not ready, player stuck in buffering) and no policy rejection: the flag is not set.
C17_Witness ==
    /\ armStatus = "resolved"
    /\ ~results.needsGesture
    /\ \E t \in armInput : results.errors[t] = MsgNotReady
    /\ \E t \in armInput : results.errors[t] = MsgStuck

\* The elements of a list.
Elements(seq) == {seq[i] : i \in DOMAIN seq}

\* The input tracks beyond the cap of the autoPreloadMultiple call.
BeyondCap == {multi.input[i] : i \in {k \in DOMAIN multi.input : k > multi.maxPlayers}}

\* C18: autoPreloadMultiple attempts only the first maxPlayers input tracks:
\* no player method is ever invoked on a track beyond the cap; and when it
\* returns, skipped lists exactly the tracks beyond the cap, the others are in
\* success or failed, and every input track is in exactly one list, once.
C18_OnlyFirstMaxPlayersAttempted ==
    multi.status # "idle" =>
        /\ \A t \in BeyondCap : ytPlayer[t].log = <<>> /\ playerState[t] = "unstarted"
        /\ Elements(multi.skipped) = BeyondCap
        /\ multi.status = "resolved" =>
              /\ Elements(multi.success) \cup Elements(multi.failed)
                    = Elements(multi.input) \ BeyondCap
              /\ Elements(multi.success) \cap Elements(multi.failed) = {}
              /\ Len(multi.success) + Len(multi.failed) + Len(multi.skipped)
                    = Len(multi.input)

\* C18 witness: called with two tracks and a cap of one, the function has
\* returned: the first track was preloaded and is in success, the second is
\* in skipped.
C18_Witness ==
    /\ multi.status = "resolved"
    /\ Len(multi.input) = 2
    /\ multi.maxPlayers = 1
    /\ multi.success = <<multi.input[1]>>
    /\ multi.skipped = <<multi.input[2]>>
    /\ ytPlayer[multi.input[1]].log # <<>>

\* The input tracks of armAll whose player passes the capability guard.
Startable == {t \in armInput : isPlayerReady(armHandle[t])}

\* Method cmd was invoked on the player of track t among the first n
\* invocations of armAll's preloads.
InvokedWithin(n, t, cmd) ==
    \E j \in 1 .. n : armLog[j].track = t /\ armLog[j].cmd = cmd

\* C19: armAll starts every track's preload (volume, mute, seek and play
\* issued) in the call itself, and no track's preload goes on after its
\* buffering wait (pauseVideo) before every track's preload was started.
C19_AllStartedBeforeAnyWaitEnds ==
    /\ armStatus # "idle" =>
          \A t \in Startable : \A c \in {"setVolume", "mute", "seekTo", "playVideo"} :
              InvokedWithin(Len(armLog), t, c)
    /\ \A i \in DOMAIN armLog :
          armLog[i].cmd = "pauseVideo" =>
              \A t \in Startable : \A c \in {"setVolume", "mute", "seekTo", "playVideo"} :
                  InvokedWithin(i - 1, t, c)

\* C19 witness: three tracks are being preloaded; the wait of trackB is over
\* and its preload went on, while trackA is still in its buffering wait.
C19_Witness ==
    /\ armInput = ArmTracks
    /\ Startable = ArmTracks
    /\ armProc["trackA"].phase = "wait"
    /\ InvokedWithin(Len(armLog), "trackB", "pauseVideo")
    /\ \A t \in ArmTracks : InvokedWithin(Len(armLog), t, "playVideo")

\* The methods invoked on the player of armAll's track t, in order.
ArmLogOf(t) ==
    LET OfTrack(e) == e.track = t IN SelectSeq(armLog, OfTrack)

\* The methods that read or restore the player once it was paused.
VerifyCmds == {"getPlayerState", "getVideoLoadedFraction", "unMute", "setVolume"}

\* The step of a preload to which the i-th invocation of log L belongs:
\* 1 mute and zero volume, 2 rate, 3 seek, 4 play, 5 poll, 6 pause, 7 verify;
\* 0 when it belongs to none.
StepOf(L, i) ==
    IF \E j \in 1 .. (i - 1) : L[j].cmd = "pauseVideo"
    THEN (IF L[i].cmd \in VerifyCmds THEN 7 ELSE 0)
    ELSE CASE L[i].cmd \in {"setVolume", "mute"} -> 1
           [] L[i].cmd = "setPlaybackRate" -> 2
           [] L[i].cmd = "seekTo" -> 3
           [] L[i].cmd = "playVideo" -> 4
           [] L[i].cmd = "getPlayerState" -> 5
           [] L[i].cmd = "pauseVideo" -> 6
           [] OTHER -> 0

\* Log L is a preload attempt, or the beginning of one, in the order of the
\* seven steps: no step is made before an earlier one, none before all the
\* earlier ones were made, rate, seek, play and pause are made once, and the
\* player is muted with volume 0 when playVideo is invoked.
InPreloadOrder(L) ==
    /\ \A i \in DOMAIN L : StepOf(L, i) # 0
    /\ \A i, j \in DOMAIN L : i < j => StepOf(L, i) <= StepOf(L, j)
    /\ \A i \in DOMAIN L : \A k \in 1 .. (StepOf(L, i) - 1) :
          \E j \in 1 .. (i - 1) : StepOf(L, j) = k
    /\ \A i, j \in DOMAIN L :
          (StepOf(L, i) = StepOf(L, j) /\ StepOf(L, i) \in {2, 3, 4, 6}) => i = j
    /\ \A i \in DOMAIN L :
          L[i].cmd = "playVideo" => (L[i].audio.muted /\ L[i].audio.volume = 0)

\* C20: the methods a preload attempt invokes on its player, in preloadPlayer
\* and in autoPreloadPlayer, come in the order mute and zero volume, rate,
\* seek, play, poll, pause, verify, and playVideo is invoked on a player that
\* is muted and at volume 0.
C20_CommandsInPreloadOrder ==
    /\ \A t \in ArmTracks : InPreloadOrder(ArmLogOf(t))
    /\ \A t \in Tracks : InPreloadOrder(ytPlayer[t].log)

\* C20 witness: a preload of armAll went through all seven steps and its
\* track was counted ready.
C20_Witness ==
    \E t \in ArmTracks :
        /\ armProc[t].phase = "ready"
        /\ [i \in DOMAIN ArmLogOf(t) |-> ArmLogOf(t)[i].cmd] =
              <<"setVolume", "mute", "setPlaybackRate", "seekTo", "playVideo",
                "getPlayerState", "pauseVideo", "getPlayerState">>

\* The buffering wait of track t ends in this step and its preload goes on
\* to pauseVideo.
WaitReturns(t) ==
    armProc[t].phase \in {"idle", "wait"} /\ armProc'[t].phase = "verify"

\* C21: the polling step of a preload ends with success only when the player
\* was observed out of the buffering state: while the player is observed
\* buffering and the bounded wait is not over, the poll keeps waiting.
C21_BufferingKeepsWaiting ==
    [][\A t \in ArmTracks :
          (WaitReturns(t) /\ armNow' < PREROLL_DURATION_MS)
              => armPlayer'[t].state # "buffering"]_vars

\* The polls waitForBuffering makes before its budget is over.
PollsInBudget == PREROLL_DURATION_MS \div BufferingPollMs

\* C22: a preload wait whose polls show no progress of the loaded fraction
\* fails with the network-stall error before the budget of the wait is over:
\* no wait runs to the end of its budget with every one of its polls having
\* shown no progress.
C22_StallFailsFast ==
    [][\A t \in ArmTracks :
          (/\ armProc[t].phase = "wait"
           /\ armProc'[t].phase = "verify"
           /\ armNow' >= PREROLL_DURATION_MS)
              => armProc[t].noProgressCount < PollsInBudget]_vars

\* No preload ever fails with the network-stall error.
C22_StallNeverReported ==
    \A t \in ArmTracks : results.errors[t] # MsgStall

\* The verification of track t is made in this step and finds the player
\* buffering: the buffering did not resolve within the bounded wait.
StillBufferingAtVerify(t) ==
    /\ armProc[t].phase = "verify"
    /\ armProc'[t].phase # "verify"
    /\ armPlayer'[t].state = "buffering"

\* C23: a track whose player is still buffering when the bounded wait of its
\* preload is over fails: it gets an error and is not counted ready, and the
\* preloads of the other tracks of the batch are left as they are.
C23_StuckTrackFailsAlone ==
    [][\A t \in ArmTracks :
          StillBufferingAtVerify(t) =>
              /\ armProc'[t].phase = "failed"
              /\ results'.errors[t] = MsgStuck
              /\ results'.readyCount = results.readyCount
              /\ armCallback'[t] = "fulfilled"
              /\ \A u \in ArmTracks \ {t} :
                    /\ armProc'[u] = armProc[u]
                    /\ armCallback'[u] = armCallback[u]
                    /\ armPlayer'[u] = armPlayer[u]
                    /\ results'.errors[u] = results.errors[u]]_vars

\* C23 witness: of three tracks the first is reported stuck in buffering
\* and the second was counted ready.
C23_Witness ==
    /\ armInput = ArmTracks
    /\ results.errors["trackA"] = MsgStuck
    /\ armProc["trackA"].phase = "failed"
    /\ armProc["trackB"].phase = "ready"
    /\ results.readyCount = 1
    /\ results.errors["trackB"] = NoError

\* The tracks of the store with id trackId.
TracksWithId(trackId) ==
    {storeTracks[i] : i \in {j \in DOMAIN storeTracks : storeTracks[j].id = trackId}}

\* C25: after setTrackRate, whatever its numeric argument (non-finite, out of
\* range, between the allowed steps), the stored rate of the track is one of
\* the allowed rates: the argument itself when it is allowed, the default 1.0
\* when it is not.
C25_SetTrackRateStoresAllowed ==
    lastStoreOp.op = "setTrackRate" =>
        \A track \in TracksWithId(lastStoreOp.id) :
            /\ Includes(track.rate)
            /\ Includes(lastStoreOp.rate) => track.rate = lastStoreOp.rate
            /\ ~Includes(lastStoreOp.rate) => track.rate = Num(DEFAULT_RATE)

\* C25 witness: setTrackRate was called with NaN for a track of the store,
\* which holds the default rate now.
C25_Witness ==
    /\ lastStoreOp.op = "setTrackRate"
    /\ lastStoreOp.rate = NaN
    /\ \E track \in TracksWithId(lastStoreOp.id) : track.rate = Num(DEFAULT_RATE)

\* C26: in every state of the store, whatever sequence of addTrack,
\* updateTrack, setTrackRate, removeTrack and rehydration led to it, the rate
\* of every track is one of the allowed rates.
C26_RateAlwaysAllowed ==
    \A i \in DOMAIN storeTracks : Includes(storeTracks[i].rate)

\* C24: a track's ready flag is true only if a preload's verification (state
\* not buffering, loaded fraction at or above the threshold) has succeeded
\* for the track since its player was attached.
C24_ReadyOnlyAfterVerification ==
    \A i \in DOMAIN storeTracks : storeTracks[i].ready => storeTracks[i].verified

\* C27: startTransport reports the tracks that are not ready through the
\* warning and still primes them: a track that is not ready and has a usable
\* player is among the tracks whose rate was applied and whose player was
\* seeked and paused.
C27_NotReadyStillPrimed ==
    startReport.called =>
        /\ startReport.notReady # {} => startReport.warned
        /\ \A t \in startReport.notReady :
              isPlayerReady(handle[t]) => t \in startReport.primed

\* The player of track t rejects the rate PitchControl requests in this
\* step: setPlaybackRate throws, or the player keeps another rate.
RateRejected(t) ==
    \/ PitchEffect(t, "throws")
    \/ PitchEffect(t, "ignored") /\ remoteRate'[t] # lastApply'.rate

\* C30: when the remote player rejects a requested rate, the stored rate of
\* the track is reverted to the default 1.0, the caller is notified, the
\* default rate is set to be applied to the player again, and the call
\* returns without an exception.
C30_RejectedRateReverts ==
    [][\A t \in Tracks :
          RateRejected(t) =>
              /\ FindTrack(storeTracks', t).rate = Num(DEFAULT_RATE)
              /\ t \in notified'
              /\ t \in pitchTimers'
              /\ lastApply'.returned \in BOOLEAN]_vars

\* C30, for a rate rejected by an exception of setPlaybackRate only.
C30_ThrownRateReverts ==
    [][\A t \in Tracks :
          PitchEffect(t, "throws") =>
              /\ FindTrack(storeTracks', t).rate = Num(DEFAULT_RATE)
              /\ t \in notified'
              /\ t \in pitchTimers'
              /\ ~lastApply'.returned]_vars

\* C28: stop on a deck pauses the deck's player and clears all the deck's
\* pad-playing markers, and changes neither the play state nor the pad
\* markers of the other deck.
C28_StopPausesAndClearsOwnDeck ==
    [][\A d \in Decks :
          PadStop(d) =>
              /\ playerState'[d] # "playing"
              /\ \A i \in PadIds : ~pads'[d][i].isPlaying
              /\ playerState'[OtherDeck(d)] = playerState[OtherDeck(d)]
              /\ pads'[OtherDeck(d)] = pads[OtherDeck(d)]]_vars

\* C28, the other deck only: stop on a deck changes neither the play state
\* nor the pads of the other deck.
C28_StopLeavesOtherDeck ==
    [][\A d \in Decks :
          PadStop(d) =>
              /\ playerState'[OtherDeck(d)] = playerState[OtherDeck(d)]
              /\ pads'[OtherDeck(d)] = pads[OtherDeck(d)]]_vars


\* C29: no core operation (startTransport, stopTransport, schedulePlay,
\* armAll, autoPreloadPlayer) invokes a method on a handle for which
\* isPlayerReady is false, and none of them throws to its caller: the calls
\* of the transport touch ready handles only; a track whose handle is not
\* ready has no method in its preload log, no pending play, and its remote
\* player is as it was created; armAll logs methods of ready players only,
\* leaves the other players as they were, and its promise is never rejected.
C29_UnusableHandleNeverUsed ==
    /\ \A t \in touched : isPlayerReady(handle[t])
    /\ \A t \in Tracks :
          ~isPlayerReady(handle[t]) =>
              /\ ytPlayer[t].log = <<>>
              /\ ytPlayer[t].audio = [muted |-> FALSE, volume |-> 100]
              /\ scheduledPlays[t] = 0
              /\ \A tm \in timers : tm.track # t
              /\ playerState[t] = "unstarted"
              /\ playerPos[t] = 0
              /\ remoteRate[t] = DEFAULT_RATE
    /\ \A i \in DOMAIN armLog : isPlayerReady(armHandle[armLog[i].track])
    /\ \A t \in ArmTracks :
          ~isPlayerReady(armHandle[t]) =>
              armPlayer[t] = [state |-> "unstarted", loaded |-> 0, muted |-> FALSE,
                              volume |-> 100]
    /\ armStatus # "rejected"

\* No handle is usable and one lacks the required methods: startTransport
\* was called with that track flagged ready, then stopTransport with it,
\* autoPreloadPlayer was called, and armAll has resolved with 'Player not
\* ready' for its track.
C29_Witness ==
    /\ \A t \in Tracks : ~isPlayerReady(handle[t])
    /\ \E t \in Tracks :
          /\ handle[t] = "broken"
          /\ startReport.called
          /\ t \in startReport.tracks \ startReport.notReady
          /\ lastOp.op = "stopTransport"
          /\ t \in lastOp.tracks
    /\ nAppCalls > 0
    /\ armStatus = "resolved"
    /\ \E a \in armInput : results.errors[a] = MsgNotReady


\* C31: activating an unset pad of a deck whose player exists sets the pad's
\* timestamp to the deck's current playback position, which makes it set,
\* and issues no seek or play on any deck.
C31_UnsetPadCapturesPosition ==
    [][\A d \in Decks, id \in PadIds :
          (PadActivate(d, id) /\ pads[d][id].timestamp < 0 /\ ~playerLoading[d]) =>
              /\ pads'[d][id].timestamp = playerPos[d]
              /\ pads'[d][id].timestamp >= 0
              /\ playerState' = playerState
              /\ playerPos' = playerPos]_vars

\* C31, the part about playback: activating an unset pad never seeks or
\* plays, and marks no pad playing, on either deck.
C31_UnsetPadNeverPlays ==
    [][\A d \in Decks, id \in PadIds :
          (PadActivate(d, id) /\ pads[d][id].timestamp < 0) =>
              /\ playerState' = playerState
              /\ playerPos' = playerPos
              /\ \A x \in Decks, i \in PadIds : pads'[x][i].isPlaying = pads[x][i].isPlaying]_vars


\* C36: pad markers stay consistent with playback when a state-change event
\* arrives late: when the PAUSED event of an earlier pause is handled after
\* the deck was triggered again and plays, the pad the trigger marked playing
\* is still marked playing.
C36_StaleEventKeepsMarker ==
    [][\A d \in Decks :
          (PlayerStateChange(d) /\ playerState[d] = "playing") =>
              \A i \in PadIds : pads'[d][i].isPlaying = pads[d][i].isPlaying]_vars


\* C32: over any sequence of user interactions no track is retried by the
\* retry passes more than maxRetries times, whatever the reason each retry
\* fails.
C32_RetriesBounded == \A t \in Tracks : attempts[t] <= maxRetries


\* C33: the retry handler attached by one arming of the listener runs at
\* most once: a handler that an interaction event runs has not been run by an
\* earlier event, i.e. it was still attached for every event type.
C33_HandlerRunsAtMostOnce ==
    [][nEvents' > nEvents =>
          \A l \in domListeners \ domListeners' :
              Cardinality({x \in domListeners : x.handler = l.handler}) = Len(EventOrder)]_vars


\* C34: when clearPendingTracks() is called while a retry pass is suspended
\* in a track's preload, the pass puts no track back into the pending set.
\* With one handler created, one event dispatched and no track dropped, one
\* pass has run, and the track it awaits is pending unless the set was
\* cleared: when that pass resumes with the set empty, the set stays empty.
C34_ClearedSetStaysEmpty ==
    [][\A call \in BagToSet(waiting), o \in {"ready", "partial", "timeout"} :
          (/\ call.isPass
           /\ nEvents = 1
           /\ nHandlers = 1
           /\ dropped = {}
           /\ pendingTracks = <<>>
           /\ PrerollEnds(call, o)) => pendingTracks' = <<>>]_vars


\* The tracks with a deferred play that has not fired and was not cleared.
TracksWithPendingPlay == {tm.track : tm \in {x \in timers : x.kind = "play"}}

\* getScheduledPlayCount(): this.scheduledPlays.size
ScheduledPlayCount == Cardinality({t \in Tracks : scheduledPlays[t] # 0})

\* C35: the scheduled set has an entry for a track exactly when the track has
\* a pending deferred play, so getScheduledPlayCount() equals the number of
\* tracks with a pending play.
C35_EntryIffPendingPlay ==
    /\ \A t \in Tracks : scheduledPlays[t] # 0 <=> t \in TracksWithPendingPlay
    /\ ScheduledPlayCount = Cardinality(TracksWithPendingPlay)

\* C35, the part about firing: when a deferred play fires, its track has no
\* entry afterwards, and a pending play always has its track's entry.
C35_EntryGoneOnceFired ==
    /\ [][\A tm \in timers : FirePlay(tm) => scheduledPlays'[tm.track] = 0]_vars
    /\ [](\A t \in TracksWithPendingPlay : scheduledPlays[t] # 0)


\* pauseVideo was invoked on track t's player since its latest attempt began.
PauseIssued(p) == \E i \in DOMAIN p.log : p.log[i].cmd = "pauseVideo"

\* C37: a preload attempt that has issued play issues pause before it
\* completes, however it ends: when a suspended autoPreloadPlayer call
\* completes and no other call is waiting on the same player, pauseVideo was
\* invoked on the player and the player is not left playing.
C37_AttemptPausesBeforeItEnds ==
    [][\A call \in BagToSet(waiting), o \in {"ready", "partial", "timeout"} :
          (/\ PrerollEnds(call, o)
           /\ \A c \in BagToSet(waiting') : c.track # call.track) =>
              /\ PauseIssued(ytPlayer'[call.track])
              /\ playerState'[call.track] # "playing"]_vars

\* C37 for armAll: a preloadPlayer call whose play was accepted has invoked
\* pauseVideo when it has returned or thrown.
C37_ArmAttemptPauses ==
    \A t \in ArmTracks :
        (/\ armProc[t].phase \in {"ready", "failed"}
         /\ isPlayerReady(armHandle[t])
         /\ armPlay[t] = "ok") =>
            \E i \in DOMAIN armLog : armLog[i].track = t /\ armLog[i].cmd = "pauseVideo"


\* C38: a preload attempt leaves the player's mute flag and volume as they
\* were before it started: once armAll has resolved, every player of its map
\* that was preloaded without error, unmuted at full volume before the call,
\* is unmuted at full volume again.
C38_AudioAsBefore ==
    armStatus = "resolved" =>
        \A t \in armInput :
            results.errors[t] = NoError =>
                ~armPlayer[t].muted /\ armPlayer[t].volume = 100

\* C38 for autoPreloadPlayer: when a suspended call completes and no other
\* call is waiting on the same player, the player, unmuted at full volume
\* before the attempt, is unmuted at full volume.
C38_AutoPreloadAudioAsBefore ==
    [][\A call \in BagToSet(waiting), o \in {"ready", "partial", "timeout"} :
          (/\ PrerollEnds(call, o)
           /\ \A c \in BagToSet(waiting') : c.track # call.track) =>
              ytPlayer'[call.track].audio = [muted |-> FALSE, volume |-> 100]]_vars

\* C39: the playlist preload manager never holds more hidden players than its
\* configured maximum, whatever calls of preloadCandidates, setMaxPreloads,
\* removePreloadedPlayer and clearAll were made and have returned.
C39_HiddenPlayersWithinMax ==
    playlistCall.status # "awaiting" => Len(hiddenPlayers) <= maxPreloads

\* Right after setMaxPreloads the map is within the maximum.
C39_SetMaxPreloadsTrims ==
    [][(\E count \in PreloadCounts : SetMaxPreloads(count))
         => Len(hiddenPlayers') <= maxPreloads']_vars

\* One preloadCandidates call adds no more players than the maximum it read.
C39_CallAddsAtMostMax ==
    Len(playlistCall.success) <= Len(playlistCall.candidates)
    /\ (playlistCall.status = "awaiting" => playlistCall.i <= Len(playlistCall.candidates))


\* The rate stored for track t is the rate of its remote player.
RateAgrees(tracks, rates, t) ==
    FindTrack(tracks, t).rate = Num(rates[t])

\* C40: after a rate change to an allowed rate made through the pitch control
\* of a track that has a usable player, the rate of the player equals the
\* rate stored for the track.
C40_StoreAndPlayerAgree ==
    [][\A t \in Tracks, r \in ControlRates \cap ALLOWED_RATES, o \in RateOutcomes :
          (HandleRateChange(t, r, o) /\ isPlayerReady(FindTrack(storeTracks', t).playerRef))
          => RateAgrees(storeTracks', remoteRate', t)]_vars

\* C40, for an allowed rate that the player takes.
C40_TakenAllowedRateAgrees ==
    [][\A t \in Tracks, r \in ControlRates \cap ALLOWED_RATES :
          (HandleRateChange(t, r, "applied")
           /\ isPlayerReady(FindTrack(storeTracks', t).playerRef))
          => RateAgrees(storeTracks', remoteRate', t)]_vars

====
